---- MODULE Spec2Model ----
(***************************************************************************)
(* Layout engine of the sigma relationship-graph viewer.                   *)
(*                                                                         *)
(*   SpecElk        the ElkLayout effect: run identifiers, the             *)
(*                  asynchronous layout run, stale-result suppression.     *)
(*   Spec           computeMindMapLayout applied to a node and edge list.  *)
(*   SpecPartition  buildAdjacency and getConnectedComponents under        *)
(*                  reordering of the lists.                               *)
(*   SpecGroups     buildAdvisorGroups: advisor inference and grouping.    *)
(*   SpecPack       packCircles: the spiral search for circle centres.     *)
(*   SpecCanvas     SigmaCanvas: expand, hide, drag and the relayout of    *)
(*                  the visible structural nodes.                          *)
(*   SpecApply      useLayout.applyLayout: the solver call, the ELK        *)
(*                  fallback and the isLayouting flag.                     *)
(*   SpecHandles    mapEdgesWithHandles applied to an edge list and a      *)
(*                  position map.                                          *)
(*   SpecApp        App: data-source selection, the requests to the graph  *)
(*                  data worker and its responses.                         *)
(***************************************************************************)
EXTENDS Integers, Sequences, FiniteSets, TLC

VARIABLES
  layoutRunId,      \* ElkLayout: layoutRunId.current
  layoutRunning,    \* ElkLayout: layoutRunning.current
  cleanupPending,   \* the last effect execution returned a cleanup function
  inFlight,         \* run ids awaiting layoutAndPackGroups
  superseded,       \* run ids started before a later run start or cleanup
  graphWrites,      \* log of setNodeAttribute batches: [run, stale]
  stopCalls,        \* log of onLayoutStop calls: [run, stale]
  nodesToLayout,    \* useLayout: the node list handed to the solver
  edgesToLayout,    \* useLayout: the edge list handed to the solver
  layoutOptions,    \* useLayout: LayoutOptions
  layoutResult,     \* what the solver call returned (status "idle" before)
  partition,        \* what getConnectedComponents returned for the lists
  firstComponents,  \* the component sets of the lists as first given
  groupGraph,       \* the graph handed to buildAdvisorGroups
  groupResult,      \* what buildAdvisorGroups returned, or that it raised
  packInput,        \* the argument of packCircles
  packResult,       \* what packCircles returned
  canvasNodes,      \* SigmaCanvas: attributes of the nodes of the graph
  canvasEdges,      \* SigmaCanvas: the edges of the graph, in insertion order
  expandMode,       \* SigmaCanvas: expandMode
  layoutMode,       \* SigmaCanvas: layoutMode
  isInitialLayoutReady,  \* SigmaCanvas: isInitialLayoutReady
  canvasEvents,     \* how many canvas events were handled, and the last one
  applyCalls,       \* useLayout: the applyLayout calls, by call number
  isLayouting,      \* useLayout: isLayouting
  nodesState,       \* useLayout: what setNodes last stored
  edgesState,       \* useLayout: what setEdges last stored
  consoleLog,       \* useLayout: the console.log lines
  handleInput,      \* mapEdgesWithHandles: the arguments (edges, positions)
  handleOutput,     \* mapEdgesWithHandles: the returned edge list
  dataSource,       \* App: dataSource
  initialData,      \* App: initialData
  isLoading,        \* App: isLoading
  loadError,        \* App: loadError
  requestIdRef,     \* App: requestIdRef.current
  workerInbox,      \* requests posted to the worker and not yet answered
  appInbox,         \* responses posted by the worker and not yet delivered
  delivered         \* log of the responses delivered to App: [id, stale]

elkVars == <<layoutRunId, layoutRunning, cleanupPending, inFlight, superseded,
             graphWrites, stopCalls>>

mindVars == <<nodesToLayout, edgesToLayout, layoutOptions, layoutResult,
              partition, firstComponents>>

groupVars == <<groupGraph, groupResult>>

packVars == <<packInput, packResult>>

canvasVars == <<canvasNodes, canvasEdges, expandMode, layoutMode,
                isInitialLayoutReady, canvasEvents>>

applyVars == <<applyCalls, isLayouting, nodesState, edgesState, consoleLog>>

handleVars == <<handleInput, handleOutput>>

appVars == <<dataSource, initialData, isLoading, loadError, requestIdRef,
             workerInbox, appInbox, delivered>>

vars == <<elkVars, mindVars, groupVars, packVars, canvasVars, applyVars, handleVars,
          appVars>>

otherThanElk ==
  <<mindVars, groupVars, packVars, canvasVars, applyVars, handleVars, appVars>>
otherThanMind ==
  <<elkVars, groupVars, packVars, canvasVars, applyVars, handleVars, appVars>>
otherThanGroup ==
  <<elkVars, mindVars, packVars, canvasVars, applyVars, handleVars, appVars>>
otherThanPack ==
  <<elkVars, mindVars, groupVars, canvasVars, applyVars, handleVars, appVars>>
otherThanCanvas ==
  <<elkVars, mindVars, groupVars, packVars, applyVars, handleVars, appVars>>
otherThanHandle ==
  <<elkVars, mindVars, groupVars, packVars, canvasVars, applyVars, appVars>>
otherThanApp ==
  <<elkVars, mindVars, groupVars, packVars, canvasVars, applyVars, handleVars>>
otherThanApply ==
  <<elkVars, groupVars, packVars, canvasVars, handleVars, appVars>>

(***************************************************************************)
(* Bounds                                                                  *)
(***************************************************************************)
MaxRunId == 6
MaxNodes == 3        \* nodes in an enumerated input graph
MaxEdges == 2        \* edges in an enumerated input graph
MaxLeaves == 18      \* leaves of the largest hub-and-leaves input
MaxChain == 5        \* nodes of a path input
MaxGroupNodes == 3   \* nodes of a graph handed to buildAdvisorGroups
MaxGroupEdges == 2   \* edges of a graph handed to buildAdvisorGroups
MaxCircles == 3      \* circles handed to packCircles
MaxAttempts == 5     \* packCircles: the cap on k (20000 in the code)
MaxChildren == 13    \* structural children of the advisor on the canvas
MaxCanvasEvents == 4 \* canvas events handled in one run
MaxDragged == 3      \* the nodes 1 .. MaxDragged are the ones dragged
MaxApplyCalls == 2   \* applyLayout calls in one run
MaxCallDepth == 2    \* frames of assignAngles the call stack holds
MaxHandleEdges == 2  \* edges of a list handed to mapEdgesWithHandles alone
MaxRequests == 5     \* requests App posts to the worker in one run

(***************************************************************************)
(* ElkLayout                                                               *)
(***************************************************************************)
ElkIdle ==
  /\ layoutRunId = 0
  /\ layoutRunning = FALSE
  /\ cleanupPending = FALSE
  /\ inFlight = {}
  /\ superseded = {}
  /\ graphWrites = {}
  /\ stopCalls = {}

\* The runs started so far: every identifier handed out is in flight, or has
\* settled; the ghost set superseded only needs the ones that can still act.
StartedRuns == inFlight

\* useEffect body.  React runs it on mount and on every change of a
\* dependency, after the previous execution's cleanup (if it returned one).
\* syncOutcome is what the synchronous prefix of the async function does:
\* buildAdvisorGroups returns no group ("empty"), raises ("throw"), or the
\* function reaches its await ("await").
EffectBody(isLayoutActive, graphOrder, syncOutcome) ==
  /\ ~cleanupPending
  /\ UNCHANGED otherThanElk
  /\ IF ~isLayoutActive \/ graphOrder = 0 \/ layoutRunning
       THEN UNCHANGED elkVars
       ELSE /\ layoutRunId < MaxRunId
            /\ layoutRunId' = layoutRunId + 1
            /\ superseded' = superseded \cup StartedRuns
            /\ cleanupPending' = TRUE
            /\ IF syncOutcome = "await"
                 THEN /\ layoutRunning' = TRUE
                      /\ inFlight' = inFlight \cup {layoutRunId + 1}
                 ELSE \* return or throw before the first await: the finally
                      \* block runs at once, with the identifier still current
                      /\ layoutRunning' = FALSE
                      /\ UNCHANGED inFlight
            /\ UNCHANGED <<graphWrites, stopCalls>>

\* Faulty variant: the cleanup clears the flag and leaves the identifier
EffectCleanupKeepsId ==
  /\ cleanupPending
  /\ layoutRunning' = FALSE
  /\ cleanupPending' = FALSE
  /\ superseded' = superseded \cup StartedRuns
  /\ UNCHANGED <<layoutRunId, inFlight, graphWrites, stopCalls>>
  /\ UNCHANGED otherThanElk

\* The cleanup function returned by the effect.
EffectCleanup ==
  /\ cleanupPending
  /\ layoutRunId < MaxRunId
  /\ layoutRunId' = layoutRunId + 1
  /\ layoutRunning' = FALSE
  /\ cleanupPending' = FALSE
  /\ superseded' = superseded \cup StartedRuns
  /\ UNCHANGED <<inFlight, graphWrites, stopCalls>>
  /\ UNCHANGED otherThanElk

\* Faulty variant: the continuation does not look at the run identifier
IsCurrentRunUnchecked(runId) == TRUE

\* The guard of the continuation after the await.
IsCurrentRun(runId) == layoutRunId = runId

\* layoutAndPackGroups resolves for run runId.
LayoutResolved(runId) ==
  /\ runId \in inFlight
  /\ inFlight' = inFlight \ {runId}
  /\ IF IsCurrentRun(runId)
       THEN /\ graphWrites' = graphWrites \cup
                 {[run |-> runId, stale |-> runId \in superseded]}
            /\ stopCalls' = stopCalls \cup
                 {[run |-> runId, stale |-> runId \in superseded]}
            /\ layoutRunning' = FALSE
       ELSE UNCHANGED <<graphWrites, stopCalls, layoutRunning>>
  /\ UNCHANGED <<layoutRunId, cleanupPending, superseded>>
  /\ UNCHANGED otherThanElk

\* layoutAndPackGroups rejects for run runId: catch, then finally.
LayoutRejected(runId) ==
  /\ runId \in inFlight
  /\ inFlight' = inFlight \ {runId}
  /\ layoutRunning' = IF layoutRunId = runId THEN FALSE ELSE layoutRunning
  /\ UNCHANGED <<layoutRunId, cleanupPending, superseded, graphWrites, stopCalls>>
  /\ UNCHANGED otherThanElk

ElkNext ==
  \/ \E a \in BOOLEAN, n \in 0..1, o \in {"empty", "throw", "await"} :
       EffectBody(a, n, o)
  \/ EffectCleanup
  \/ \E r \in 1..MaxRunId : LayoutResolved(r)
  \/ \E r \in 1..MaxRunId : LayoutRejected(r)

Idle == [status |-> "idle"]

MindIdle ==
  /\ nodesToLayout = <<>>
  /\ edgesToLayout = <<>>
  /\ layoutOptions = Idle
  /\ layoutResult = Idle
  /\ partition = Idle
  /\ firstComponents = {}

GroupIdle ==
  /\ groupGraph = Idle
  /\ groupResult = Idle

PackIdle ==
  /\ packInput = Idle
  /\ packResult = Idle

CanvasIdle ==
  /\ canvasNodes = <<>>
  /\ canvasEdges = <<>>
  /\ expandMode = "structure"
  /\ layoutMode = "layered"
  /\ isInitialLayoutReady = FALSE
  /\ canvasEvents = Idle

ApplyIdle ==
  /\ applyCalls = <<>>
  /\ isLayouting = FALSE
  /\ nodesState = <<>>
  /\ edgesState = <<>>
  /\ consoleLog = <<>>

HandleIdle ==
  /\ handleInput = Idle
  /\ handleOutput = Idle

\* App before it is mounted has no worker, so nothing is in flight
AppIdle ==
  /\ dataSource = "mock"
  /\ initialData = [nodes |-> <<>>, edges |-> <<>>]
  /\ isLoading = TRUE
  /\ loadError = <<>>               \* null
  /\ requestIdRef = 0
  /\ workerInbox = {}
  /\ appInbox = {}
  /\ delivered = {}

ElkInit ==
  ElkIdle /\ MindIdle /\ GroupIdle /\ PackIdle /\ CanvasIdle /\ ApplyIdle /\ HandleIdle
  /\ AppIdle

SpecElk == ElkInit /\ [][ElkNext]_vars

\* the promise of layoutAndPackGroups settles: every run in flight is
\* eventually resolved or rejected
ElkSettles == \A r \in 1..MaxRunId : WF_vars(LayoutResolved(r) \/ LayoutRejected(r))

SpecElkLive == SpecElk /\ ElkSettles

(***************************************************************************)
(* Sequence helpers (Array.prototype methods used by the solver)           *)
(***************************************************************************)
Range(s) == {s[i] : i \in DOMAIN s}

Contains(s, x) == \E i \in DOMAIN s : s[i] = x

\* Set.add / "push unless present": insertion-ordered, no duplicates
AddUnique(s, x) == IF Contains(s, x) THEN s ELSE Append(s, x)

RECURSIVE FilterSeq(_, _)
\* Array.filter(x => x \in keep)
FilterSeq(s, keep) ==
  IF s = <<>> THEN <<>>
  ELSE IF Head(s) \in keep THEN <<Head(s)>> \o FilterSeq(Tail(s), keep)
       ELSE FilterSeq(Tail(s), keep)

RECURSIVE InsertByKey(_, _, _)
\* x goes after every element whose key is <= its own: Array.sort is stable
InsertByKey(sorted, x, key) ==
  IF sorted = <<>> THEN <<x>>
  ELSE IF key[Head(sorted)] <= key[x]
         THEN <<Head(sorted)>> \o InsertByKey(Tail(sorted), x, key)
         ELSE <<x>> \o sorted

RECURSIVE SortByKey(_, _)
\* Array.sort((a, b) => key(a) - key(b)), ascending and stable
SortByKey(s, key) ==
  IF s = <<>> THEN <<>>
  ELSE InsertByKey(SortByKey(SubSeq(s, 1, Len(s) - 1), key), s[Len(s)], key)

(***************************************************************************)
(* Numbers.  The solver works in IEEE doubles; here lengths are integers   *)
(* in hundredths of a pixel, angles integers in thousandths of a degree,   *)
(* and Math.sin / Math.cos are a one-degree table with linear              *)
(* interpolation, scaled by 100000.                                        *)
(***************************************************************************)
Abs(v) == IF v < 0 THEN 0 - v ELSE v
Max2(a, b) == IF a >= b THEN a ELSE b
Min2(a, b) == IF a <= b THEN a ELSE b

Px(v) == v * 100                 \* pixels to hundredths of a pixel
FullTurn == 360 * 1000           \* 2 * Math.PI
HalfTurn == 180 * 1000           \* Math.PI

\* floor(a * w / t) for 0 <= a, 0 <= w, 0 < t without leaving 32 bits:
\* a is split in thousands, so the intermediate products stay small.
MulDiv(a, w, t) ==
  LET hi == a \div 1000
      lo == a % 1000
      q1 == (hi * w) \div t
      r1 == (hi * w) % t
  IN q1 * 1000 + (r1 * 1000 + lo * w) \div t

SinTable == <<
  0, 1745, 3490, 5234, 6976, 8716, 10453, 12187, 13917, 15643,
  17365, 19081, 20791, 22495, 24192, 25882, 27564, 29237, 30902, 32557,
  34202, 35837, 37461, 39073, 40674, 42262, 43837, 45399, 46947, 48481,
  50000, 51504, 52992, 54464, 55919, 57358, 58779, 60182, 61566, 62932,
  64279, 65606, 66913, 68200, 69466, 70711, 71934, 73135, 74314, 75471,
  76604, 77715, 78801, 79864, 80902, 81915, 82904, 83867, 84805, 85717,
  86603, 87462, 88295, 89101, 89879, 90631, 91355, 92050, 92718, 93358,
  93969, 94552, 95106, 95630, 96126, 96593, 97030, 97437, 97815, 98163,
  98481, 98769, 99027, 99255, 99452, 99619, 99756, 99863, 99939, 99985,
  100000 >>

\* sin of an angle in 0 .. 90 degrees
SinQuarter(a) ==
  LET d == a \div 1000
      f == a % 1000
  IN IF d >= 90 THEN SinTable[91]
     ELSE SinTable[d + 1] + ((SinTable[d + 2] - SinTable[d + 1]) * f + 500) \div 1000

\* Math.sin
Sin(angle) ==
  LET a == angle % FullTurn
  IN IF a <= 90000 THEN SinQuarter(a)
     ELSE IF a <= 180000 THEN SinQuarter(180000 - a)
     ELSE IF a <= 270000 THEN 0 - SinQuarter(a - 180000)
     ELSE 0 - SinQuarter(360000 - a)

\* Math.cos
Cos(angle) == Sin(angle + 90000)

\* { x: radius * Math.cos(angle), y: radius * Math.sin(angle) }, radius in
\* pixels
Polar(radius, angle) ==
  [x |-> (radius * Cos(angle) + 500) \div 1000,
   y |-> (radius * Sin(angle) + 500) \div 1000]

(***************************************************************************)
(* useLayout: node attributes                                              *)
(***************************************************************************)
NODE_WIDTH == 150
NODE_HEIGHT == 50

\* An optional attribute (measured?, position?, a data field) is a sequence of
\* length 0 or 1.
Absent == <<>>
Present(v) == <<v>>

\* The rank of an id used as a sort key (an id is a string; its place in
\* localeCompare order is its number here).
IdAsKey(id) == id

\* data.nationalId / data.label / data.caseName, trimmed and non-empty, else
\* the node id.  Keys are modelled by their rank in localeCompare order.
getNodeSortKey(node) ==
  IF node.label # Absent THEN node.label[1] ELSE IdAsKey(node.id)

getNodeDimensions(node) ==
  IF node.measured = Absent
    THEN [width |-> NODE_WIDTH, height |-> NODE_HEIGHT]
    ELSE node.measured[1]

isNodeLocked(node) ==
  IF node.dataLocked \/ node.dataIsLocked THEN TRUE ELSE ~node.draggable

(***************************************************************************)
(* Graph partitioner                                                       *)
(***************************************************************************)
NodeIds(nodeList) == {nodeList[i].id : i \in DOMAIN nodeList}

RECURSIVE AddEdgesOneWay(_, _)
\* Faulty variant: only the source learns of its neighbour
AddEdgesOneWay(adjacency, edges) ==
  IF edges = <<>> THEN adjacency
  ELSE LET e == Head(edges)
           withKeys == [id \in DOMAIN adjacency \cup {e.source, e.target} |->
                          IF id \in DOMAIN adjacency THEN adjacency[id] ELSE <<>>]
       IN AddEdgesOneWay([withKeys EXCEPT ![e.source] = AddUnique(@, e.target)],
                         Tail(edges))

RECURSIVE AddEdges(_, _)
\* the edge loop of buildAdjacency: both endpoints get an entry, present in
\* the node list or not, and each is added to the other's neighbour set
AddEdges(adjacency, edges) ==
  IF edges = <<>> THEN adjacency
  ELSE LET e == Head(edges)
           withKeys == [id \in DOMAIN adjacency \cup {e.source, e.target} |->
                          IF id \in DOMAIN adjacency THEN adjacency[id] ELSE <<>>]
           withSrc == [withKeys EXCEPT ![e.source] = AddUnique(@, e.target)]
           withTgt == [withSrc EXCEPT ![e.target] = AddUnique(@, e.source)]
       IN AddEdges(withTgt, Tail(edges))

buildAdjacency(nodeList, edges) ==
  AddEdges([id \in NodeIds(nodeList) |-> <<>>], edges)

\* nodes.get(a)?.sortKey ?? a
SortKeyOrId(nodes, ids) ==
  [id \in ids |-> IF id \in DOMAIN nodes THEN nodes[id].sortKey ELSE IdAsKey(id)]

RECURSIVE EnqueueNeighbors(_, _, _)
\* for (const neighbor of sortedNeighbors) if (!visited.has(neighbor)) ...
EnqueueNeighbors(neighbors, queue, visited) ==
  IF neighbors = <<>> THEN [queue |-> queue, visited |-> visited]
  ELSE IF Head(neighbors) \in visited
         THEN EnqueueNeighbors(Tail(neighbors), queue, visited)
         ELSE EnqueueNeighbors(Tail(neighbors), Append(queue, Head(neighbors)),
                               visited \cup {Head(neighbors)})

RECURSIVE ComponentBfs(_, _, _, _, _)
\* while (queue.length > 0) of getConnectedComponents
ComponentBfs(adjacency, nodes, queue, component, visited) ==
  IF queue = <<>> THEN [component |-> component, visited |-> visited]
  ELSE LET current == Head(queue)
           neighbors == IF current \in DOMAIN adjacency THEN adjacency[current] ELSE <<>>
           sortedNeighbors == SortByKey(neighbors, SortKeyOrId(nodes, Range(neighbors)))
           next == EnqueueNeighbors(sortedNeighbors, Tail(queue), visited)
       IN ComponentBfs(adjacency, nodes, next.queue, Append(component, current),
                       next.visited)

RECURSIVE ComponentsFromEverySeed(_, _, _, _, _)
\* Faulty variant: a seed already visited still opens a component of its own
ComponentsFromEverySeed(adjacency, nodes, sortedIds, components, visited) ==
  IF sortedIds = <<>> THEN components
  ELSE LET found == ComponentBfs(adjacency, nodes, <<Head(sortedIds)>>, <<>>,
                                 visited \cup {Head(sortedIds)})
       IN ComponentsFromEverySeed(adjacency, nodes, Tail(sortedIds),
                                  Append(components, found.component), found.visited)

RECURSIVE ComponentsFrom(_, _, _, _, _)
\* for (const id of sortedIds) of getConnectedComponents
ComponentsFrom(adjacency, nodes, sortedIds, components, visited) ==
  IF sortedIds = <<>> THEN components
  ELSE IF Head(sortedIds) \in visited
         THEN ComponentsFrom(adjacency, nodes, Tail(sortedIds), components, visited)
         ELSE LET found == ComponentBfs(adjacency, nodes, <<Head(sortedIds)>>, <<>>,
                                        visited \cup {Head(sortedIds)})
              IN ComponentsFrom(adjacency, nodes, Tail(sortedIds),
                                Append(components, found.component), found.visited)

\* nodes: the Map id -> LayoutNode; nodeOrder: its keys in insertion order
getConnectedComponents(adjacency, nodes, nodeOrder) ==
  ComponentsFrom(adjacency, nodes,
                 SortByKey(nodeOrder, SortKeyOrId(nodes, Range(nodeOrder))),
                 <<>>, {})

(***************************************************************************)
(* Radial solver: computeMindMapLayout                                     *)
(***************************************************************************)
FIRST_RADIUS == 220
LEVEL_GAP == 200
NODE_MARGIN == 24
MIN_ANGLE_DEG == 15
ARC_EXTRA_PERCENT == 15          \* ARC_EXTRA_BY_DEGREE = 0.15
COMPONENT_GAP == 420
MAX_RING_ITERATIONS == 12
MAX_RADIAL_ITERATIONS == 12

MIN_ANGLE_RAD == MIN_ANGLE_DEG * 1000
WeightOne == 100                 \* the weight 1, weights being in percent

\* Map.set / Map.get(k) ?? d
Put(m, k, v) == (k :> v) @@ m
GetOr(m, k, d) == IF k \in DOMAIN m THEN m[k] ELSE d

RECURSIVE KeysInOrder(_)
\* the keys of the Map filled by nodesToLayout.forEach, in insertion order
KeysInOrder(nodeList) ==
  IF nodeList = <<>> THEN <<>>
  ELSE AddUnique(KeysInOrder(SubSeq(nodeList, 1, Len(nodeList) - 1)),
                 nodeList[Len(nodeList)].id)

\* nodes.set(node.id, {...}): a later node with the same id replaces the entry
BuildNodes(nodeList, adjacency) ==
  [id \in NodeIds(nodeList) |->
     LET last == CHOOSE i \in DOMAIN nodeList :
                   /\ nodeList[i].id = id
                   /\ \A j \in DOMAIN nodeList : j > i => nodeList[j].id # id
         node == nodeList[last]
         dimensions == getNodeDimensions(node)
     IN [id |-> id, node |-> node, width |-> dimensions.width,
         height |-> dimensions.height, locked |-> isNodeLocked(node),
         sortKey |-> getNodeSortKey(node),
         degree |-> IF id \in DOMAIN adjacency THEN Len(adjacency[id]) ELSE 0]]

\* sort((a, b) => b.degree - a.degree || a.sortKey.localeCompare(b.sortKey))
ByDegreeThenKey(ids, nodes) ==
  SortByKey(SortByKey(ids, [id \in Range(ids) |-> nodes[id].sortKey]),
            [id \in Range(ids) |-> 0 - nodes[id].degree])

FirstOf(s) == IF s = <<>> THEN <<>> ELSE <<s[1]>>      \* slice(0, 1)

\* Faulty variant: without preferred roots the first node of the component is
\* the root, whatever its degree
selectPseudoRootsFirstListed(componentNodes, nodes, preferredRootIds) ==
  IF preferredRootIds # {}
    THEN ByDegreeThenKey(FilterSeq(componentNodes, preferredRootIds), nodes)
    ELSE FirstOf(componentNodes)

selectPseudoRoots(componentNodes, nodes, preferredRootIds) ==
  IF preferredRootIds # {}
    THEN ByDegreeThenKey(FilterSeq(componentNodes, preferredRootIds), nodes)
    ELSE LET sortedByDegree == ByDegreeThenKey(componentNodes, nodes)
             highestDegree == IF sortedByDegree = <<>> THEN 0
                              ELSE nodes[sortedByDegree[1]].degree
             threshold == Max2(3, (highestDegree * 7) \div 10)
             pseudoRoots == FilterSeq(sortedByDegree,
                              {id \in Range(sortedByDegree) : nodes[id].degree >= threshold})
         IN IF highestDegree = 0 THEN FirstOf(sortedByDegree)
            ELSE IF pseudoRoots # <<>> THEN pseudoRoots
            ELSE FirstOf(sortedByDegree)

\* ---- spanning forest -----------------------------------------------------
\* f: [unassigned, parentById, parentOrder, depthById, treeById]; parentOrder
\* is the insertion order of parentById, a parent is Absent for null.
AssignNode(f, id, parent, depth, treeId) ==
  [unassigned  |-> f.unassigned \ {id},
   parentById  |-> Put(f.parentById, id, parent),
   parentOrder |-> AddUnique(f.parentOrder, id),
   depthById   |-> Put(f.depthById, id, depth),
   treeById    |-> Put(f.treeById, id, treeId)]

RECURSIVE AssignNeighbors(_, _, _, _, _)
\* for (const neighbor of ordered) of the spanning-forest loop
AssignNeighbors(f, ordered, current, rootId, queue) ==
  IF ordered = <<>> THEN [f |-> f, queue |-> queue]
  ELSE LET neighbor == Head(ordered)
       IN IF neighbor \notin f.unassigned
            THEN AssignNeighbors(f, Tail(ordered), current, rootId, queue)
            ELSE AssignNeighbors(
                   AssignNode(f, neighbor, Present(current),
                              GetOr(f.depthById, current, 0) + 1, rootId),
                   Tail(ordered), current, rootId, Append(queue, neighbor))

RECURSIVE ForestBfs(_, _, _, _, _, _)
ForestBfs(f, queue, adjacency, nodes, componentSet, rootId) ==
  IF queue = <<>> THEN f
  ELSE LET current == Head(queue)
           neighbors == IF current \in DOMAIN adjacency THEN adjacency[current] ELSE <<>>
           inComponent == FilterSeq(neighbors, componentSet)
           ordered == SortByKey(inComponent, SortKeyOrId(nodes, Range(inComponent)))
           step == AssignNeighbors(f, ordered, current, rootId, Tail(queue))
       IN ForestBfs(step.f, step.queue, adjacency, nodes, componentSet, rootId)

RECURSIVE ForestFromRoots(_, _, _, _, _)
\* for (const root of pseudoRoots)
ForestFromRoots(f, roots, adjacency, nodes, componentSet) ==
  IF roots = <<>> THEN f
  ELSE LET root == Head(roots)
       IN IF root \notin f.unassigned
            THEN ForestFromRoots(f, Tail(roots), adjacency, nodes, componentSet)
            ELSE ForestFromRoots(
                   ForestBfs(AssignNode(f, root, Absent, 0, root), <<root>>,
                             adjacency, nodes, componentSet, root),
                   Tail(roots), adjacency, nodes, componentSet)

RECURSIVE AbsorbOrphans(_, _, _)
\* if (unassigned.size > 0): every unreached id becomes a depth-1 child of
\* the first pseudo-root
AbsorbOrphans(f, orphans, fallbackRoot) ==
  IF orphans = <<>> THEN f
  ELSE AbsorbOrphans(AssignNode(f, Head(orphans), Present(fallbackRoot), 1, fallbackRoot),
                     Tail(orphans), fallbackRoot)

RECURSIVE ChildrenFrom(_, _, _)
\* parentById.forEach((parent, child) => ...): childrenById
ChildrenFrom(parentById, order, childrenById) ==
  IF order = <<>> THEN childrenById
  ELSE LET child == Head(order)
           parent == parentById[child]
       IN IF parent = Absent
            THEN ChildrenFrom(parentById, Tail(order), childrenById)
            ELSE ChildrenFrom(parentById, Tail(order),
                   Put(childrenById, parent[1],
                       Append(GetOr(childrenById, parent[1], <<>>), child)))

\* ---- angular allocation --------------------------------------------------
\* (Math.max(width, height) + NODE_MARGIN) * (1 + ARC_EXTRA_BY_DEGREE * degree),
\* in percent; 1 for an id without metadata
NodeWeight(nodes, id) ==
  IF id \in DOMAIN nodes
    THEN (Max2(nodes[id].width, nodes[id].height) + NODE_MARGIN)
           * (WeightOne + ARC_EXTRA_PERCENT * nodes[id].degree)
    ELSE WeightOne

RECURSIVE SumSeq(_)
SumSeq(s) == IF s = <<>> THEN 0 ELSE Head(s) + SumSeq(Tail(s))

RECURSIVE AssignAngles(_, _, _, _, _, _, _)
RECURSIVE AssignChildAngles(_, _, _, _, _, _, _, _, _, _)

\* a: [angleById, clusterDepthById]
AssignAngles(a, nodeId, startAngle, endAngle, depth, childrenById, nodes) ==
  LET here == [angleById |-> Put(a.angleById, nodeId, (startAngle + endAngle) \div 2),
               clusterDepthById |-> Put(a.clusterDepthById, nodeId, depth)]
      children == GetOr(childrenById, nodeId, <<>>)
      sortedChildren == SortByKey(children, SortKeyOrId(nodes, Range(children)))
      childWeights == [i \in DOMAIN sortedChildren |-> NodeWeight(nodes, sortedChildren[i])]
  IN IF children = <<>> THEN here
     ELSE AssignChildAngles(here, sortedChildren, childWeights, SumSeq(childWeights), 1,
                            startAngle, startAngle, endAngle, depth, [c |-> childrenById, n |-> nodes])

AssignChildAngles(a, sortedChildren, childWeights, total, index, cursor, startAngle, endAngle, depth, env) ==
  IF index > Len(sortedChildren) THEN a
  ELSE LET span == IF total > 0
                     THEN MulDiv(endAngle - startAngle, childWeights[index], total)
                     ELSE (endAngle - startAngle) \div Len(sortedChildren)
           done == AssignAngles(a, sortedChildren[index], cursor, cursor + span,
                                depth + 1, env.c, env.n)
       IN AssignChildAngles(done, sortedChildren, childWeights, total, index + 1,
                            cursor + span, startAngle, endAngle, depth, env)

RECURSIVE SectorsFrom(_, _, _, _, _)
\* sectorByTree: pseudoRoots.forEach((root, index) => ...)
SectorsFrom(roots, spans, index, cursor, sectorByTree) ==
  IF index > Len(roots) THEN sectorByTree
  ELSE SectorsFrom(roots, spans, index + 1, cursor + spans[index],
                   Put(sectorByTree, roots[index],
                       [start |-> cursor, end |-> cursor + spans[index]]))

RECURSIVE AnglesFromTrees(_, _, _, _, _)
\* treeOrder.forEach(treeId => ...)
AnglesFromTrees(a, treeOrder, sectorByTree, childrenById, nodes) ==
  IF treeOrder = <<>> THEN a
  ELSE LET sector == sectorByTree[Head(treeOrder)]
       IN AnglesFromTrees(
            AssignAngles(a, Head(treeOrder), sector.start, sector.end, 0, childrenById, nodes),
            Tail(treeOrder), sectorByTree, childrenById, nodes)

\* ---- radial bands and overlap relaxation ---------------------------------
\* c: the per-component context [nodes, angleById, clusterDepthById, maxDepth,
\* hasMultiRoots]; offsets: depthOffsets, in pixels.
RECURSIVE MaxOf(_)
MaxOf(S) == IF S = {} THEN 0
            ELSE LET v == CHOOSE w \in S : TRUE IN Max2(v, MaxOf(S \ {v}))

MinOf(S) == CHOOSE v \in S : \A w \in S : v <= w

\* baseRadiusByDepth
BaseRadius(depth, hasMultiRoots) ==
  IF depth = 0
    THEN (IF hasMultiRoots THEN (FIRST_RADIUS * 6) \div 10 ELSE 0)
    ELSE (IF hasMultiRoots THEN (FIRST_RADIUS * 16) \div 10 ELSE FIRST_RADIUS)
           + LEVEL_GAP * (depth - 1)

addDepthOffset(offsets, depth, delta) ==
  [d \in DOMAIN offsets |-> IF d >= depth THEN offsets[d] + delta ELSE offsets[d]]

getRadiusForDepth(c, offsets, depth) ==
  (IF depth \in 0..c.maxDepth THEN BaseRadius(depth, c.hasMultiRoots) ELSE 0)
    + GetOr(offsets, depth, 0)

DepthOf(c, id) == GetOr(c.clusterDepthById, id, 0)

RadialPosition(c, offsets, id) ==
  Polar(getRadiusForDepth(c, offsets, DepthOf(c, id)), GetOr(c.angleById, id, 0))

getComputedPosition(c, offsets, id) ==
  IF id \notin DOMAIN c.nodes THEN RadialPosition(c, offsets, id)
  ELSE IF c.nodes[id].locked /\ c.nodes[id].node.position # Absent
         THEN c.nodes[id].node.position[1]
         ELSE RadialPosition(c, offsets, id)

\* padding in pixels, positions in hundredths of a pixel
boxOverlap(a, aMeta, b, bMeta, padding) ==
  LET halfWA == aMeta.width * 50 + Px(padding)
      halfWB == bMeta.width * 50 + Px(padding)
      halfHA == aMeta.height * 50 + Px(padding)
      halfHB == bMeta.height * 50 + Px(padding)
  IN /\ Abs(a.x - b.x) < halfWA + halfWB
     /\ Abs(a.y - b.y) < halfHA + halfHB

NodesAtDepth(c, movableNodes, depth) ==
  FilterSeq(movableNodes, {id \in Range(movableNodes) : DepthOf(c, id) = depth})

\* one depth of the same-depth pass: the angularly adjacent pairs of the ring
RingOverlapAt(c, offsets, movableNodes, depth) ==
  LET nodesAtDepth == NodesAtDepth(c, movableNodes, depth)
      sorted == SortByKey(nodesAtDepth,
                          [id \in Range(nodesAtDepth) |-> GetOr(c.angleById, id, 0)])
      n == Len(sorted)
      testPairs == {idx \in 1..n : ~(idx = n /\ n < 3)}
  IN /\ n >= 2
     /\ \E idx \in testPairs :
          boxOverlap(getComputedPosition(c, offsets, sorted[idx]), c.nodes[sorted[idx]],
                     getComputedPosition(c, offsets, sorted[(idx % n) + 1]),
                     c.nodes[sorted[(idx % n) + 1]], NODE_MARGIN \div 2)

RECURSIVE RingPass(_, _, _, _)
\* while (adjusted && iterations < MAX_RING_ITERATIONS)
RingPass(c, offsets, movableNodes, iterations) ==
  IF iterations >= MAX_RING_ITERATIONS THEN offsets
  ELSE LET overlapped == {d \in 0..c.maxDepth : RingOverlapAt(c, offsets, movableNodes, d)}
       IN IF overlapped = {} THEN offsets
          ELSE RingPass(c, addDepthOffset(offsets, MinOf(overlapped), NODE_MARGIN),
                        movableNodes, iterations + 1)

\* one depth of the cross-depth pass: every inner node against every outer one
RadialOverlapAt(c, offsets, movableNodes, depth) ==
  \E inner \in Range(NodesAtDepth(c, movableNodes, depth)) :
    \E outer \in Range(NodesAtDepth(c, movableNodes, depth + 1)) :
      boxOverlap(getComputedPosition(c, offsets, inner), c.nodes[inner],
                 getComputedPosition(c, offsets, outer), c.nodes[outer],
                 NODE_MARGIN \div 2)

RECURSIVE RadialPass(_, _, _, _)
\* while (adjusted && iterations < MAX_RADIAL_ITERATIONS)
RadialPass(c, offsets, movableNodes, iterations) ==
  IF iterations >= MAX_RADIAL_ITERATIONS THEN offsets
  ELSE LET overlapped == {d \in 0..(c.maxDepth - 1) :
                            RadialOverlapAt(c, offsets, movableNodes, d)}
       IN IF overlapped = {} THEN offsets
          ELSE RadialPass(c, addDepthOffset(offsets, MinOf(overlapped) + 1, NODE_MARGIN),
                          movableNodes, iterations + 1)

RECURSIVE PushFromLocked(_, _, _, _, _, _)
\* while (boxOverlap(lockedPos, locked, currentPos, meta, ...) && guard < ...):
\* currentPos is the position read before the loop
PushFromLocked(offsets, lockedPos, locked, currentPos, meta, guard) ==
  IF boxOverlap(lockedPos, locked, currentPos, meta.meta, NODE_MARGIN \div 2)
       /\ guard < MAX_RADIAL_ITERATIONS
    THEN PushFromLocked(addDepthOffset(offsets, meta.depth, NODE_MARGIN \div 2),
                        lockedPos, locked, currentPos, meta, guard + 1)
    ELSE offsets

RECURSIVE LockedAgainst(_, _, _, _)
\* movableNodes.forEach(meta => ...) for one locked node
LockedAgainst(c, offsets, locked, movableNodes) ==
  IF movableNodes = <<>> THEN offsets
  ELSE LET id == Head(movableNodes)
           lockedPos == IF c.nodes[locked].node.position # Absent
                          THEN c.nodes[locked].node.position[1]
                          ELSE [x |-> 0, y |-> 0]
           pushed == PushFromLocked(offsets, lockedPos, c.nodes[locked],
                                    getComputedPosition(c, offsets, id),
                                    [meta |-> c.nodes[id], depth |-> DepthOf(c, id)], 0)
       IN LockedAgainst(c, pushed, locked, Tail(movableNodes))

RECURSIVE LockedPass(_, _, _, _)
\* lockedNodes.forEach(locked => ...)
LockedPass(c, offsets, lockedNodes, movableNodes) ==
  IF lockedNodes = <<>> THEN offsets
  ELSE LockedPass(c, LockedAgainst(c, offsets, Head(lockedNodes), movableNodes),
                  Tail(lockedNodes), movableNodes)

\* ---- bounding boxes ------------------------------------------------------
ZeroBox == [minX |-> 0, maxX |-> 0, minY |-> 0, maxY |-> 0]

RECURSIVE MinOver(_)
MinOver(S) == LET v == CHOOSE w \in S : TRUE
              IN IF S = {v} THEN v ELSE Min2(v, MinOver(S \ {v}))
RECURSIVE MaxOver(_)
MaxOver(S) == LET v == CHOOSE w \in S : TRUE
              IN IF S = {v} THEN v ELSE Max2(v, MaxOver(S \ {v}))

toBoundingBox(positions, nodes) ==
  LET ids == DOMAIN positions \cap DOMAIN nodes
  IN IF ids = {} THEN ZeroBox
     ELSE [minX |-> MinOver({positions[id].x - nodes[id].width * 50 : id \in ids}),
           maxX |-> MaxOver({positions[id].x + nodes[id].width * 50 : id \in ids}),
           minY |-> MinOver({positions[id].y - nodes[id].height * 50 : id \in ids}),
           maxY |-> MaxOver({positions[id].y + nodes[id].height * 50 : id \in ids})]

mergeBoundingBoxes(a, b) ==
  [minX |-> Min2(a.minX, b.minX), maxX |-> Max2(a.maxX, b.maxX),
   minY |-> Min2(a.minY, b.minY), maxY |-> Max2(a.maxY, b.maxY)]

getBoundsCenter(bounds) ==
  [centerX |-> (bounds.minX + bounds.maxX) \div 2,
   centerY |-> (bounds.minY + bounds.maxY) \div 2]

\* ---- one component -------------------------------------------------------
EmptyForest(component) ==
  [unassigned |-> Range(component), parentById |-> <<>>, parentOrder |-> <<>>,
   depthById |-> <<>>, treeById |-> <<>>]

\* The body of  for (const component of components)  is computed in stages;
\* each stage takes the record s of what the body has computed so far and adds
\* its own results.

\* const pseudoRoots = selectPseudoRoots(...); const hasMultiRoots = ...
ComponentRoots(s) ==
  [pseudoRoots |-> selectPseudoRoots(s.componentNodes, s.nodes, s.preferredRootIds)] @@ s

\* for (const root of pseudoRoots) { ... breadth-first assignment ... }
ComponentSpanning(s) ==
  [forest |-> ForestFromRoots(EmptyForest(s.component), s.pseudoRoots, s.adjacency,
                              s.nodes, Range(s.component))] @@ s

\* if (unassigned.size > 0) { const fallbackRoot = pseudoRoots[0]; ... }
\* status "throw": pseudoRoots[0] is undefined where fallbackRoot.id is read
\* (TypeError).
ComponentForest(s) ==
  IF s.forest.unassigned # {} /\ s.pseudoRoots = <<>>
    THEN [status |-> "throw", component |-> s.component]
    ELSE [full |-> AbsorbOrphans(s.forest, FilterSeq(s.component, s.forest.unassigned),
                                 IF s.pseudoRoots = <<>> THEN 0 ELSE s.pseudoRoots[1])] @@ s

\* treeWeights, totalWeight, angleAllocations, the normalised spans and the
\* sector of every tree
SectorByTree(componentNodes, pseudoRoots, treeIdOf, nodes) ==
  LET treeIds == {treeIdOf[id] : id \in Range(componentNodes)}
      treeWeights == [t \in treeIds |->
                        SumSeq([i \in DOMAIN componentNodes |->
                                  IF treeIdOf[componentNodes[i]] = t
                                    THEN NodeWeight(nodes, componentNodes[i]) ELSE 0])]
      treeSize == [t \in treeIds |->
                     Cardinality({id \in Range(componentNodes) : treeIdOf[id] = t})]
      totalWeight == SumSeq([i \in DOMAIN componentNodes |->
                               NodeWeight(nodes, componentNodes[i])])
      angleAllocations ==
        [i \in DOMAIN pseudoRoots |->
           LET weight == GetOr(treeWeights, pseudoRoots[i], WeightOne)
               minAngle == MIN_ANGLE_RAD * Max2(1, GetOr(treeSize, pseudoRoots[i], 0))
           IN Max2(minAngle, MulDiv(FullTurn, weight, Max2(totalWeight, WeightOne)))]
      sumAngles == SumSeq(angleAllocations)
      spans == [i \in DOMAIN pseudoRoots |->
                  IF sumAngles > 0 THEN MulDiv(angleAllocations[i], FullTurn, sumAngles)
                  ELSE angleAllocations[i]]
  IN SectorsFrom(pseudoRoots, spans, 1, 0 - HalfTurn, <<>>)

ComponentSectors(s) ==
  [sectorByTree |->
     SectorByTree(s.componentNodes, s.pseudoRoots,
                  [id \in Range(s.componentNodes) |-> GetOr(s.full.treeById, id, id)],
                  s.nodes),
   childrenById |-> ChildrenFrom(s.full.parentById, s.full.parentOrder, <<>>)] @@ s

\* for (const root of pseudoRoots) assignAngles(root.id, sector.start, sector.end, 0)
ComponentAngles(s) ==
  [angles |-> AnglesFromTrees([angleById |-> <<>>, clusterDepthById |-> <<>>],
                              s.pseudoRoots, s.sectorByTree, s.childrenById, s.nodes)] @@ s

\* maxDepth, baseRadiusByDepth, movableNodes, lockedNodes
ComponentContext(s) ==
  [c |-> [nodes |-> s.nodes, angleById |-> s.angles.angleById,
          clusterDepthById |-> s.angles.clusterDepthById,
          maxDepth |-> MaxOf({s.angles.clusterDepthById[id] :
                                id \in DOMAIN s.angles.clusterDepthById}),
          hasMultiRoots |-> Len(s.pseudoRoots) > 1],
   movableNodes |-> FilterSeq(s.componentNodes,
                              {id \in Range(s.componentNodes) : ~s.nodes[id].locked}),
   lockedNodes |-> FilterSeq(s.componentNodes,
                             {id \in Range(s.componentNodes) : s.nodes[id].locked})] @@ s

ComponentRing(s) ==
  [afterRing |-> RingPass(s.c, [d \in 0..s.c.maxDepth |-> 0], s.movableNodes, 0)] @@ s

ComponentRadial(s) ==
  [afterRadial |-> RadialPass(s.c, s.afterRing, s.movableNodes, 0)] @@ s

ComponentLocked(s) ==
  [depthOffsets |-> LockedPass(s.c, s.afterRadial, s.lockedNodes, s.movableNodes)] @@ s

\* componentNodes.forEach(meta => positions.set(meta.id, getComputedPosition(meta.id)))
ComponentPlaced(s) ==
  [positions |-> [id \in Range(s.componentNodes) |->
                    getComputedPosition(s.c, s.depthOffsets, id)]] @@ s

\* componentResults.push({ positions, bounds, hasLocked }), with the values the
\* body went through
ComponentResult(s) ==
  [status |-> "ok", component |-> s.component, componentNodes |-> s.componentNodes,
   pseudoRoots |-> s.pseudoRoots, parentById |-> s.full.parentById,
   depthById |-> s.full.depthById, treeById |-> s.full.treeById,
   angleById |-> s.c.angleById, clusterDepthById |-> s.c.clusterDepthById,
   maxDepth |-> s.c.maxDepth, hasMultiRoots |-> s.c.hasMultiRoots,
   afterRing |-> s.afterRing, afterRadial |-> s.afterRadial,
   depthOffsets |-> s.depthOffsets, movableNodes |-> s.movableNodes,
   lockedNodes |-> s.lockedNodes, positions |-> s.positions,
   bounds |-> toBoundingBox(s.positions, s.nodes),
   hasLocked |-> s.lockedNodes # <<>>]

LayoutTrees(s) ==
  IF s.status = "throw" THEN s
  ELSE ComponentResult(ComponentPlaced(ComponentLocked(ComponentRadial(ComponentRing(
         ComponentContext(ComponentAngles(ComponentSectors(s))))))))

\* the body of  for (const component of components)
LayoutComponent(component, adjacency, nodes, preferredRootIds) ==
  IF FilterSeq(component, DOMAIN nodes) = <<>>
    THEN [status |-> "ok", component |-> component, componentNodes |-> <<>>,
          positions |-> <<>>, bounds |-> ZeroBox, hasLocked |-> FALSE]
    ELSE LayoutTrees(ComponentForest(ComponentSpanning(ComponentRoots(
           [status |-> "ok", component |-> component,
            componentNodes |-> FilterSeq(component, DOMAIN nodes),
            adjacency |-> adjacency, nodes |-> nodes,
            preferredRootIds |-> preferredRootIds]))))

\* ---- packing, centering --------------------------------------------------
ShiftBox(b, offset) ==
  [minX |-> b.minX + offset.x, maxX |-> b.maxX + offset.x,
   minY |-> b.minY + offset.y, maxY |-> b.maxY + offset.y]

\* Faulty variant: every id of the component gets an entry, known to the node list
\* or not
PackOneEveryId(k, result, packingDirection) ==
  [finalPositions |-> [id \in Range(result.component) |->
                         GetOr(result.positions, id, [x |-> 0, y |-> 0])]
                      @@ k.finalPositions,
   packingOffsetX |-> k.packingOffsetX,
   packingOffsetY |-> k.packingOffsetY,
   aggregateBounds |-> Present(result.bounds),
   anyLockedComponent |-> TRUE]

\* one step of componentResults.forEach; k: [finalPositions, packingOffsetX,
\* packingOffsetY, aggregateBounds (Absent for null), anyLockedComponent]
PackOne(k, result, packingDirection) ==
  IF result.hasLocked
    THEN [finalPositions |-> result.positions @@ k.finalPositions,
          packingOffsetX |-> k.packingOffsetX,
          packingOffsetY |-> k.packingOffsetY,
          aggregateBounds |-> IF k.aggregateBounds # Absent
                                THEN Present(mergeBoundingBoxes(k.aggregateBounds[1], result.bounds))
                                ELSE Present(result.bounds),
          anyLockedComponent |-> TRUE]
    ELSE LET width == result.bounds.maxX - result.bounds.minX
             height == result.bounds.maxY - result.bounds.minY
             offset == IF packingDirection = "vertical"
                         THEN [x |-> 0 - result.bounds.minX,
                               y |-> k.packingOffsetY - result.bounds.minY]
                         ELSE [x |-> k.packingOffsetX - result.bounds.minX,
                               y |-> 0 - result.bounds.minY]
             shifted == [id \in DOMAIN result.positions |->
                           [x |-> result.positions[id].x + offset.x,
                            y |-> result.positions[id].y + offset.y]]
             shiftedBounds == ShiftBox(result.bounds, offset)
         IN [finalPositions |-> shifted @@ k.finalPositions,
             packingOffsetX |-> IF packingDirection = "vertical" THEN k.packingOffsetX
                                ELSE k.packingOffsetX + width + Px(COMPONENT_GAP),
             packingOffsetY |-> IF packingDirection = "vertical"
                                  THEN k.packingOffsetY + height + Px(COMPONENT_GAP)
                                  ELSE k.packingOffsetY,
             aggregateBounds |-> IF k.aggregateBounds # Absent
                                   THEN Present(mergeBoundingBoxes(k.aggregateBounds[1], shiftedBounds))
                                   ELSE Present(shiftedBounds),
             anyLockedComponent |-> k.anyLockedComponent]

RECURSIVE PackComponents(_, _, _)
PackComponents(k, componentResults, packingDirection) ==
  IF componentResults = <<>> THEN k
  ELSE PackComponents(
         IF DOMAIN Head(componentResults).positions = {} THEN k
         ELSE PackOne(k, Head(componentResults), packingDirection),
         Tail(componentResults), packingDirection)

\* Faulty variant: the layout is centred whether or not a component is locked
CenterAllAlways(k) ==
  IF k.aggregateBounds # Absent
    THEN LET center == getBoundsCenter(k.aggregateBounds[1])
         IN [id \in DOMAIN k.finalPositions |->
               [x |-> k.finalPositions[id].x - center.centerX,
                y |-> k.finalPositions[id].y - center.centerY]]
    ELSE k.finalPositions

\* if (!anyLockedComponent && centeredBounds !== null)
CenterAll(k) ==
  IF ~k.anyLockedComponent /\ k.aggregateBounds # Absent
    THEN LET center == getBoundsCenter(k.aggregateBounds[1])
         IN [id \in DOMAIN k.finalPositions |->
               [x |-> k.finalPositions[id].x - center.centerX,
                y |-> k.finalPositions[id].y - center.centerY]]
    ELSE k.finalPositions

\* nodesToLayout.forEach(node => { if (!finalPositions.has(node.id)) ... })
RECURSIVE FillMissing(_, _)
FillMissing(finalPositions, nodeList) ==
  IF nodeList = <<>> THEN finalPositions
  ELSE LET node == Head(nodeList)
       IN FillMissing(
            IF node.id \in DOMAIN finalPositions THEN finalPositions
            ELSE Put(finalPositions, node.id,
                     IF node.position # Absent THEN node.position[1]
                     ELSE [x |-> 0, y |-> 0]),
            Tail(nodeList))

\* The solver.  status "ok": positions is the returned Map; status "throw":
\* the call raised.  The other fields are the solver's intermediate values.
PackAndCenter(nodeList, nodes, components, componentResults, options) ==
  IF \E i \in DOMAIN componentResults : componentResults[i].status = "throw"
    THEN [status |-> "throw", nodes |-> nodes, components |-> components]
    ELSE [status |-> "ok", nodes |-> nodes, components |-> components,
          componentResults |-> componentResults,
          positions |->
            FillMissing(
              CenterAll(PackComponents(
                          [finalPositions |-> <<>>, packingOffsetX |-> 0,
                           packingOffsetY |-> 0, aggregateBounds |-> Absent,
                           anyLockedComponent |-> FALSE],
                          componentResults, options.componentPacking)),
              nodeList)]

LayoutComponents(nodeList, adjacency, nodes, components, options) ==
  PackAndCenter(nodeList, nodes, components,
                [i \in DOMAIN components |->
                   LayoutComponent(components[i], adjacency, nodes,
                                   Range(options.preferredRootIds))],
                options)

LayoutGraph(nodeList, adjacency, nodes, options) ==
  LayoutComponents(nodeList, adjacency, nodes,
                   getConnectedComponents(adjacency, nodes, KeysInOrder(nodeList)),
                   options)

computeMindMapLayout(nodeList, edges, options) ==
  LayoutGraph(nodeList, buildAdjacency(nodeList, edges),
              BuildNodes(nodeList, buildAdjacency(nodeList, edges)), options)

(***************************************************************************)
(* Inputs of the solver and of the partitioner                             *)
(***************************************************************************)
MissingIds == {0}                \* an id no node of the list carries

\* the position a node carries on input, in hundredths of a pixel
InputPosition(id) == [x |-> Px(40 * id), y |-> Px(30 * id)]

BigSize == [width |-> 600, height |-> 600]

\* node 1 has no label (its key is its id); the keys of the others tie
InputLabel(id) == IF id = 1 THEN Absent ELSE Present(id % 2)

AppNode(id, label, big, locked, positionless) ==
  [id |-> id,
   label |-> label,
   measured |-> IF id \in big THEN Present(BigSize) ELSE Absent,
   position |-> IF id \in positionless THEN Absent ELSE Present(InputPosition(id)),
   dataLocked |-> id \in locked /\ id % 3 = 1,
   dataIsLocked |-> id \in locked /\ id % 3 = 0,
   draggable |-> ~(id \in locked /\ id % 3 = 2)]

EdgePairs(n) == {p \in ((0..n) \X (1..n)) : p[1] < p[2]}

RECURSIVE EdgeList(_)
\* the edges of a set of pairs, in lexicographic order
EdgeList(pairs) ==
  IF pairs = {} THEN <<>>
  ELSE LET first == CHOOSE p \in pairs :
                      \A q \in pairs : p[1] < q[1] \/ (p[1] = q[1] /\ p[2] <= q[2])
       IN <<[source |-> first[1], target |-> first[2]]>> \o EdgeList(pairs \ {first})

EdgeSets(n) == {E \in SUBSET EdgePairs(n) : Cardinality(E) <= MaxEdges}

BigChoices == {{}, {2}, {2, 3}}
LockedChoices == SUBSET {1, 2}
PositionlessChoices == {{}, {1}}
OptionChoices ==
  {[preferredRootIds |-> <<>>, componentPacking |-> "horizontal"],
   [preferredRootIds |-> <<>>, componentPacking |-> "vertical"],
   [preferredRootIds |-> <<1>>, componentPacking |-> "horizontal"],
   [preferredRootIds |-> <<1, 2>>, componentPacking |-> "horizontal"],
   [preferredRootIds |-> <<2, 3>>, componentPacking |-> "vertical"]}

\* a hub (node 1) with k leaves, every node of the default size
HubNodes(k) == [i \in 1..(k + 1) |-> AppNode(i, Absent, {}, {}, {})]
HubEdges(k) == [i \in 1..k |-> [source |-> 1, target |-> i + 1]]

\* the nodes 1 .. MaxChain joined into one path, node 1 at one end and node
\* MaxChain at the other, the inner nodes in any order
ChainOrders ==
  {order \in [1..MaxChain -> 1..MaxChain] :
     /\ order[1] = 1 /\ order[MaxChain] = MaxChain
     /\ \A i, j \in 1..MaxChain : order[i] = order[j] => i = j}
ChainEdges(order) ==
  EdgeList({<<Min2(order[i], order[i + 1]), Max2(order[i], order[i + 1])>> :
              i \in 1..(MaxChain - 1)})
\* the inner nodes of the path as preferred roots
InnerRoots == [i \in 1..(MaxChain - 2) |-> i + 1]

ComponentSets(components, ids) ==
  {Range(components[i]) \cap ids : i \in DOMAIN components}

MindInit ==
  /\ ElkIdle /\ GroupIdle /\ PackIdle /\ CanvasIdle /\ ApplyIdle /\ HandleIdle /\ AppIdle
  /\ layoutResult = Idle
  /\ partition = Idle
  /\ firstComponents = {}
  /\ \/ \E n \in 1..MaxNodes, E \in EdgeSets(MaxNodes), big \in BigChoices,
          locked \in LockedChoices, positionless \in PositionlessChoices,
          options \in OptionChoices :
          /\ \A p \in E : p[2] <= n
          /\ big \subseteq 1..n
          /\ locked \subseteq 1..n
          /\ positionless \subseteq 1..n
          /\ \A i \in Range(options.preferredRootIds) : i <= n + 1
          /\ nodesToLayout = [i \in 1..n |-> AppNode(i, InputLabel(i), big, locked, positionless)]
          /\ edgesToLayout = EdgeList(E)
          /\ layoutOptions = options
     \/ \E k \in (MaxNodes + 1)..MaxLeaves :
          /\ nodesToLayout = HubNodes(k)
          /\ edgesToLayout = HubEdges(k)
          /\ layoutOptions = [preferredRootIds |-> <<>>, componentPacking |-> "horizontal"]
     \/ \E order \in ChainOrders :
          /\ nodesToLayout = HubNodes(MaxChain - 1)
          /\ edgesToLayout = ChainEdges(order)
          /\ layoutOptions = [preferredRootIds |-> InnerRoots,
                               componentPacking |-> "horizontal"]

\* applyLayout's call of the solver
ComputeLayout ==
  /\ layoutResult.status = "idle"
  /\ layoutResult' = computeMindMapLayout(nodesToLayout, edgesToLayout, layoutOptions)
  /\ UNCHANGED <<nodesToLayout, edgesToLayout, layoutOptions, partition, firstComponents>>
  /\ UNCHANGED otherThanMind

MindNext == ComputeLayout

Spec == MindInit /\ [][MindNext]_vars

(***************************************************************************)
(* The partitioner on its own: the lists are permuted and partitioned      *)
(***************************************************************************)
Swap(s, i) == [j \in DOMAIN s |-> IF j = i THEN s[i + 1] ELSE IF j = i + 1 THEN s[i] ELSE s[j]]

Partitioned(nodeList, edges) ==
  LET adjacency == buildAdjacency(nodeList, edges)
  IN getConnectedComponents(adjacency, BuildNodes(nodeList, adjacency),
                            KeysInOrder(nodeList))

PartitionInit ==
  /\ ElkIdle /\ GroupIdle /\ PackIdle /\ CanvasIdle /\ ApplyIdle /\ HandleIdle /\ AppIdle
  /\ layoutResult = Idle
  /\ layoutOptions = Idle
  /\ partition = Idle
  /\ \E n \in 1..MaxNodes, E \in EdgeSets(MaxNodes) :
       /\ \A p \in E : p[2] <= n
       /\ nodesToLayout = [i \in 1..n |-> AppNode(i, InputLabel(i), {}, {}, {})]
       /\ edgesToLayout = EdgeList(E)
       /\ firstComponents =
            ComponentSets(Partitioned([i \in 1..n |-> AppNode(i, InputLabel(i), {}, {}, {})],
                                      EdgeList(E)), 1..n)

\* buildAdjacency followed by getConnectedComponents
Partition ==
  /\ partition.status = "idle"
  /\ partition' = [status |-> "ok",
                   components |-> Partitioned(nodesToLayout, edgesToLayout)]
  /\ UNCHANGED <<nodesToLayout, edgesToLayout, layoutOptions, layoutResult, firstComponents>>
  /\ UNCHANGED otherThanMind

\* the caller hands over the same nodes in another order
PermuteNodes(i) ==
  /\ i \in 1..(Len(nodesToLayout) - 1)
  /\ nodesToLayout' = Swap(nodesToLayout, i)
  /\ partition' = Idle
  /\ UNCHANGED <<edgesToLayout, layoutOptions, layoutResult, firstComponents>>
  /\ UNCHANGED otherThanMind

\* the caller hands over the same edges in another order
PermuteEdges(i) ==
  /\ i \in 1..(Len(edgesToLayout) - 1)
  /\ edgesToLayout' = Swap(edgesToLayout, i)
  /\ partition' = Idle
  /\ UNCHANGED <<nodesToLayout, layoutOptions, layoutResult, firstComponents>>
  /\ UNCHANGED otherThanMind

PartitionNext ==
  \/ Partition
  \/ \E i \in 1..MaxNodes : PermuteNodes(i)
  \/ \E i \in 1..MaxEdges : PermuteEdges(i)

SpecPartition == PartitionInit /\ [][PartitionNext]_vars

(***************************************************************************)
(* buildAdvisorGroups.  A graph is [status, order, advisor, edges]: the     *)
(* nodes are 1..order in forEachNode order, advisor is the set of nodes     *)
(* whose businessType is the advisor type, edges is the edge list in        *)
(* forEachEdge order, an edge being [source, target, structural].           *)
(***************************************************************************)
WALK_DEPTH == 10

\* getBusinessType(graph, nodeId, cache) === "理專"
IsAdvisor(g, nodeId) == nodeId \in g.advisor

RECURSIVE FirstStructuralSource(_, _)
FirstStructuralSource(edges, nodeId) ==
  IF edges = <<>> THEN Absent
  ELSE IF Head(edges).target = nodeId /\ Head(edges).structural
         THEN Present(Head(edges).source)
         ELSE FirstStructuralSource(Tail(edges), nodeId)

\* the source of the first inbound edge whose edgeType is "structural"
getInboundStructuralParent(g, nodeId) == FirstStructuralSource(g.edges, nodeId)

RECURSIVE StructuralWalk(_, _, _, _)
\* for (let depth = 0; depth < 10 && current; depth++) { ... }
StructuralWalk(g, current, visited, depth) ==
  IF depth >= WALK_DEPTH THEN Absent
  ELSE IF getInboundStructuralParent(g, current) = Absent THEN Absent
  ELSE IF getInboundStructuralParent(g, current)[1] \in visited THEN Absent
  ELSE IF IsAdvisor(g, getInboundStructuralParent(g, current)[1])
         THEN getInboundStructuralParent(g, current)
         ELSE StructuralWalk(g, getInboundStructuralParent(g, current)[1],
                             visited \cup {getInboundStructuralParent(g, current)[1]},
                             depth + 1)

RECURSIVE NeighborsFrom(_, _, _, _)
NeighborsFrom(edges, nodeId, inbound, acc) ==
  IF edges = <<>> THEN acc
  ELSE NeighborsFrom(Tail(edges), nodeId, inbound,
         IF inbound /\ Head(edges).target = nodeId THEN AddUnique(acc, Head(edges).source)
         ELSE IF ~inbound /\ Head(edges).source = nodeId THEN AddUnique(acc, Head(edges).target)
         ELSE acc)

\* graph.forEachNeighbor: the in-neighbours, then the out-neighbours not yet
\* seen
Neighbors(g, nodeId) ==
  NeighborsFrom(g.edges, nodeId, FALSE, NeighborsFrom(g.edges, nodeId, TRUE, <<>>))

\* What a call of inferAdvisor leaves: the cache, the advisor returned
\* (Absent for null), and whether the call raised.
Inferred(cache, advisor) == [cache |-> cache, advisor |-> advisor, raised |-> FALSE]
Overflowed(cache) == [cache |-> cache, advisor |-> Absent, raised |-> TRUE]

\* nodeAdvisorCache.set(nodeId, inferredFromNeighbor); return inferredFromNeighbor
CacheInferred(r, nodeId) ==
  IF r.raised THEN r ELSE Inferred(Put(r.cache, nodeId, r.advisor), r.advisor)

RECURSIVE inferAdvisor(_, _, _, _)
RECURSIVE inferAdvisorFromNeighbors(_, _, _, _)
RECURSIVE NextNeighbor(_, _, _, _)

\* active: the nodes whose inferAdvisor frame is on the stack, iterating its
\* neighbours.  Such a node is not cached yet, so a nested call for it does
\* what the outer frame did and recurses into the same neighbour again: the
\* recursion has no end and the engine raises RangeError (stack overflow).
inferAdvisor(g, nodeId, cache, active) ==
  IF nodeId \in DOMAIN cache THEN Inferred(cache, cache[nodeId])
  ELSE IF IsAdvisor(g, nodeId) THEN Inferred(Put(cache, nodeId, Present(nodeId)), Present(nodeId))
  ELSE IF StructuralWalk(g, nodeId, {nodeId}, 0) # Absent
         THEN Inferred(Put(cache, nodeId, StructuralWalk(g, nodeId, {nodeId}, 0)),
                       StructuralWalk(g, nodeId, {nodeId}, 0))
  ELSE IF nodeId \in active THEN Overflowed(cache)
  ELSE CacheInferred(inferAdvisorFromNeighbors(g, Neighbors(g, nodeId), cache,
                                               active \cup {nodeId}),
                     nodeId)

\* graph.forEachNeighbor(nodeId, neighborId => { if (inferred) return; ... })
inferAdvisorFromNeighbors(g, neighbors, cache, active) ==
  IF neighbors = <<>> THEN Inferred(cache, Absent)
  ELSE NextNeighbor(g, Tail(neighbors), inferAdvisor(g, Head(neighbors), cache, active),
                    active)

NextNeighbor(g, rest, r, active) ==
  IF r.raised \/ r.advisor # Absent THEN r
  ELSE inferAdvisorFromNeighbors(g, rest, r.cache, active)

\* ---- DisjointSet ---------------------------------------------------------
\* new DisjointSet(items): every item its own parent
DisjointSet(items) == [item \in Range(items) |-> item]

RECURSIVE find(_, _)
\* find with path compression: [parent, root]
find(parent, item) ==
  IF item \notin DOMAIN parent THEN [parent |-> parent, root |-> item]
  ELSE IF parent[item] = item THEN [parent |-> parent, root |-> item]
  ELSE [parent |-> [find(parent, parent[item]).parent EXCEPT
                      ![item] = find(parent, parent[item]).root],
        root |-> find(parent, parent[item]).root]

UnionRoots(parent, rootA, rootB) ==
  IF rootA = rootB THEN parent ELSE Put(parent, rootB, rootA)

UnionFound(foundA, b) ==
  UnionRoots(find(foundA.parent, b).parent, foundA.root, find(foundA.parent, b).root)

\* Faulty variant: b itself, not b's root, is hung under a's root
unionItems(parent, a, b) ==
  IF find(parent, a).root = find(parent, b).root THEN parent
  ELSE Put(parent, b, find(parent, a).root)

union(parent, a, b) == UnionFound(find(parent, a), b)

\* ---- buildAdvisorGroups --------------------------------------------------
AdvisorsInOrder(g) == FilterSeq([i \in 1..g.order |-> i], g.advisor)

IndexOf(s, x) == CHOOSE i \in DOMAIN s : s[i] = x

Raised == [status |-> "raised"]

RECURSIVE UnionEdges(_, _, _, _)

UnionEdgeTarget(g, edges, parent, a, b) ==
  IF b.raised THEN Raised
  ELSE UnionEdges(g, Tail(edges), b.cache,
                  IF a.advisor = Absent \/ b.advisor = Absent THEN parent
                  ELSE union(parent, a.advisor[1], b.advisor[1]))

UnionEdgeSource(g, edges, parent, a) ==
  IF a.raised THEN Raised
  ELSE UnionEdgeTarget(g, edges, parent, a,
                       inferAdvisor(g, Head(edges).target, a.cache, {}))

\* graph.forEachEdge((_e, _a, source, target) => { ... disjointSet.union(a, b) })
UnionEdges(g, edges, cache, parent) ==
  IF edges = <<>> THEN [status |-> "ok", cache |-> cache, parent |-> parent]
  ELSE UnionEdgeSource(g, edges, parent, inferAdvisor(g, Head(edges).source, cache, {}))

\* Faulty variant: the union-find root stands for its group
pickRepresentativeAdvisorRoot(parent, advisors, groupId) ==
  [parent |-> parent, advisorId |-> Present(groupId)]

RECURSIVE pickRepresentativeAdvisor(_, _, _)
\* [parent, advisorId]: the first advisor in order whose find is groupId
pickRepresentativeAdvisor(parent, advisors, groupId) ==
  IF advisors = <<>> THEN [parent |-> parent, advisorId |-> Absent]
  ELSE IF find(parent, Head(advisors)).root = groupId
         THEN [parent |-> find(parent, Head(advisors)).parent,
               advisorId |-> Present(Head(advisors))]
         ELSE pickRepresentativeAdvisor(find(parent, Head(advisors)).parent,
                                        Tail(advisors), groupId)

GroupAt(byGroup, groupId) ==
  {i \in DOMAIN byGroup : byGroup[i].groupId = groupId}

\* byGroup.set(groupId, { advisorId, advisorOrderIndex, nodeIds: [nodeId] })
NewGroup(byGroup, advisorsInOrder, groupId, picked, nodeId) ==
  [parent |-> picked.parent,
   byGroup |-> Append(byGroup,
     [groupId |-> groupId,
      advisorId |-> IF picked.advisorId # Absent THEN picked.advisorId[1]
                    ELSE advisorsInOrder[1],
      advisorOrderIndex |->
        IndexOf(advisorsInOrder,
                IF picked.advisorId # Absent THEN picked.advisorId[1]
                ELSE advisorsInOrder[1]) - 1,
      nodeIds |-> <<nodeId>>])]

\* group.nodeIds.push(nodeId)
JoinGroup(byGroup, i, nodeId) ==
  [byGroup EXCEPT ![i].nodeIds = Append(@, nodeId)]

RECURSIVE CollectGroups(_, _, _, _, _, _)

CollectFound(g, ids, cache, found, byGroup, advisorsInOrder, nodeId) ==
  IF GroupAt(byGroup, found.root) = {}
    THEN CollectGroups(g, ids, cache,
           NewGroup(byGroup, advisorsInOrder, found.root,
                    pickRepresentativeAdvisor(found.parent, advisorsInOrder, found.root),
                    nodeId).parent,
           NewGroup(byGroup, advisorsInOrder, found.root,
                    pickRepresentativeAdvisor(found.parent, advisorsInOrder, found.root),
                    nodeId).byGroup,
           advisorsInOrder)
    ELSE CollectGroups(g, ids, cache, found.parent,
                       JoinGroup(byGroup, CHOOSE i \in GroupAt(byGroup, found.root) : TRUE,
                                 nodeId),
                       advisorsInOrder)

CollectInferred(g, ids, r, parent, byGroup, advisorsInOrder) ==
  IF r.raised THEN Raised
  ELSE IF r.advisor = Absent
         THEN CollectGroups(g, Tail(ids), r.cache, parent, byGroup, advisorsInOrder)
         ELSE CollectFound(g, Tail(ids), r.cache, find(parent, r.advisor[1]), byGroup,
                           advisorsInOrder, Head(ids))

\* graph.forEachNode(nodeId => { ... byGroup ... })
CollectGroups(g, ids, cache, parent, byGroup, advisorsInOrder) ==
  IF ids = <<>> THEN [status |-> "ok", byGroup |-> byGroup]
  ELSE CollectInferred(g, ids, inferAdvisor(g, Head(ids), cache, {}), parent, byGroup,
                       advisorsInOrder)

\* [...byGroup.entries()].map(...).sort((a, b) => a.advisorOrderIndex - b.advisorOrderIndex)
SortGroups(collected) ==
  IF collected.status = "raised" THEN Raised
  ELSE [status |-> "ok",
        groups |-> SortByKey(collected.byGroup,
                             [grp \in Range(collected.byGroup) |-> grp.advisorOrderIndex])]

GroupsAfterUnion(g, unioned, advisorsInOrder) ==
  IF unioned.status = "raised" THEN Raised
  ELSE SortGroups(CollectGroups(g, [i \in 1..g.order |-> i], unioned.cache,
                                unioned.parent, <<>>, advisorsInOrder))

GroupsOf(g, advisorsInOrder) ==
  IF advisorsInOrder = <<>> THEN [status |-> "ok", groups |-> <<>>]
  ELSE GroupsAfterUnion(g, UnionEdges(g, g.edges, <<>>, DisjointSet(advisorsInOrder)),
                        advisorsInOrder)

\* status "ok": groups is the returned array; status "raised": the call threw
buildAdvisorGroups(g) == GroupsOf(g, AdvisorsInOrder(g))

\* ---- the graphs handed to buildAdvisorGroups -----------------------------
GroupEdgeValues(n) ==
  {[source |-> p[1], target |-> p[2], structural |-> t] :
     p \in {q \in (1..n) \X (1..n) : q[1] # q[2]}, t \in BOOLEAN}

\* edge lists without a repeated (source, target) pair
GroupEdgeLists(n) ==
  UNION {{s \in [1..k -> GroupEdgeValues(n)] :
            \A i \in 1..k, j \in 1..k :
              i # j => <<s[i].source, s[i].target>> # <<s[j].source, s[j].target>>} :
         k \in 0..MaxGroupEdges}

GroupInit ==
  /\ ElkIdle /\ MindIdle /\ PackIdle /\ CanvasIdle /\ ApplyIdle /\ HandleIdle /\ AppIdle
  /\ groupResult = Idle
  /\ \E n \in 1..MaxGroupNodes, advisor \in SUBSET (1..MaxGroupNodes),
        edges \in GroupEdgeLists(MaxGroupNodes) :
       /\ advisor \subseteq 1..n
       /\ \A i \in DOMAIN edges : edges[i].source <= n /\ edges[i].target <= n
       /\ groupGraph = [status |-> "given", order |-> n, advisor |-> advisor,
                        edges |-> edges]

\* ElkLayout's call  const groups = buildAdvisorGroups(graph)
BuildGroups ==
  /\ groupResult.status = "idle"
  /\ groupResult' = buildAdvisorGroups(groupGraph)
  /\ UNCHANGED groupGraph
  /\ UNCHANGED otherThanGroup

GroupNext == BuildGroups

SpecGroups == GroupInit /\ [][GroupNext]_vars

(***************************************************************************)
(* packCircles.  Radii and the spiral step are whole pixels, the spiral     *)
(* radius is in tenths of a pixel, centres are in hundredths of a pixel.    *)
(***************************************************************************)
GOLDEN_ANGLE == 137508         \* Math.PI * (3 - Math.sqrt(5)), in angle units
MIN_STEP == 500

RECURSIVE IsqrtBetween(_, _, _)
\* the largest r in lo..hi with r * r <= v, by bisection
IsqrtBetween(v, lo, hi) ==
  IF lo >= hi THEN lo
  ELSE IF ((lo + hi + 1) \div 2) * ((lo + hi + 1) \div 2) <= v
         THEN IsqrtBetween(v, (lo + hi + 1) \div 2, hi)
         ELSE IsqrtBetween(v, lo, ((lo + hi + 1) \div 2) - 1)

\* floor(Math.sqrt(v)) for 0 <= v < 2^31
Isqrt(v) == IsqrtBetween(v, 0, 46340)

\* v * w / 10000 for a signed w, rounded towards zero
Scaled(v, w) == IF w >= 0 THEN MulDiv(v, w, 10000) ELSE 0 - MulDiv(v, 0 - w, 10000)

\* { x: Math.cos(theta) * r, y: Math.sin(theta) * r } for theta = k * goldenAngle
\* and r = step * Math.sqrt(k)
SpiralSlot(step, k) ==
  [x |-> Scaled(Isqrt(step * step * k * 100), Cos((k * GOLDEN_ANGLE) % FullTurn)),
   y |-> Scaled(Isqrt(step * step * k * 100), Sin((k * GOLDEN_ANGLE) % FullTurn))]

\* dx * dx + dy * dy in square pixels, for centres in hundredths of a pixel
DistanceSquared(p, q) ==
  MulDiv(Abs(p.x - q.x), Abs(p.x - q.x), 10000)
    + MulDiv(Abs(p.y - q.y), Abs(p.y - q.y), 10000)

\* dist >= p.radius + candidate.radius
Apart(p, candidate) ==
  DistanceSquared(p, candidate) >= (p.radius + candidate.radius) * (p.radius + candidate.radius)

\* Faulty variant: every slot is taken as free
SlotFreeAlways(placed, candidate) == TRUE

\* const ok = placed.every(p => dist >= p.radius + candidate.radius)
SlotFree(placed, candidate) ==
  \A i \in DOMAIN placed : Apart(placed[i], candidate)

Candidate(circle, step, k) ==
  [id |-> circle.id, x |-> SpiralSlot(step, k).x, y |-> SpiralSlot(step, k).y,
   radius |-> circle.radius]

RECURSIVE TrySlots(_, _, _, _)
\* let k = 1; while (k < cap) { ...; if (ok) { placed.push(candidate); break; } k++; }
\* The loop ends without a push when no slot below the cap is free.
TrySlots(circle, k, placed, step) ==
  IF k >= MaxAttempts THEN placed
  ELSE IF SlotFree(placed, Candidate(circle, step, k))
         THEN Append(placed, Candidate(circle, step, k))
         ELSE TrySlots(circle, k + 1, placed, step)

RECURSIVE PlaceRemaining(_, _, _)
\* remaining.forEach(circle => { ... })
PlaceRemaining(remaining, placed, step) ==
  IF remaining = <<>> THEN placed
  ELSE PlaceRemaining(Tail(remaining), TrySlots(Head(remaining), 1, placed, step), step)

\* [...input.circles].sort((a, b) => b.radius - a.radius)
SortedCircles(circles) ==
  SortByKey(circles, [c \in Range(circles) |-> 0 - c.radius])

\* byId.get(input.centerId) ?? circles[0]: Absent when there is no circle
CenterOf(sorted, centerId) ==
  IF \E i \in DOMAIN sorted : sorted[i].id = centerId
    THEN Present(sorted[CHOOSE i \in DOMAIN sorted :
                          /\ sorted[i].id = centerId
                          /\ \A j \in DOMAIN sorted : j > i => sorted[j].id # centerId])
    ELSE IF sorted # <<>> THEN Present(sorted[1]) ELSE Absent

\* Math.max(...circles.map(c => c.radius), 500)
StepOf(sorted) == MaxOf({sorted[i].radius : i \in DOMAIN sorted} \cup {MIN_STEP})

\* new Map(placed.map(p => [p.id, p])): a later entry replaces an earlier one
PackedById(placed) ==
  [id \in {placed[i].id : i \in DOMAIN placed} |->
     placed[CHOOSE i \in DOMAIN placed :
              /\ placed[i].id = id
              /\ \A j \in DOMAIN placed : j > i => placed[j].id # id]]

PackAround(sorted, center) ==
  PlaceRemaining(
    IF center = Absent THEN sorted
    ELSE SelectSeq(sorted, LAMBDA c : c.id # center[1].id),
    IF center = Absent THEN <<>>
    ELSE <<[id |-> center[1].id, x |-> 0, y |-> 0, radius |-> center[1].radius]>>,
    StepOf(sorted))

PackSorted(sorted, centerId) == PackedById(PackAround(sorted, CenterOf(sorted, centerId)))

packCircles(input) == PackSorted(SortedCircles(input.circles), input.centerId)

\* layoutAndPackGroups: const circle = circles.get(groupId);
\* offsetX = circle?.x ?? 0; offsetY = circle?.y ?? 0
GroupOffset(circles, groupId) ==
  IF groupId \in DOMAIN circles THEN [x |-> circles[groupId].x, y |-> circles[groupId].y]
  ELSE [x |-> 0, y |-> 0]

\* ---- the circles handed to packCircles -----------------------------------
\* Radii as layoutAndPackGroups makes them: at least the group gap of 300.
\* Two circles of the largest radius would be tested at a distance equal to
\* the sum of their radii, where the outcome hangs on the last bit of the
\* double arithmetic; such inputs are left out.
RadiusChoices == {300, 400, 450, 820}

PackInit ==
  /\ ElkIdle /\ MindIdle /\ GroupIdle /\ CanvasIdle /\ ApplyIdle /\ HandleIdle /\ AppIdle
  /\ packResult = Idle
  /\ \E n \in 0..MaxCircles, radii \in [1..MaxCircles -> RadiusChoices],
        centerId \in 0..MaxCircles :
       /\ centerId <= n
       /\ \A i \in (n + 1)..MaxCircles : radii[i] = 300
       /\ Cardinality({i \in 1..n : radii[i] = 820}) <= 1
       /\ packInput = [status |-> "given",
                       circles |-> [i \in 1..n |-> [id |-> i, radius |-> radii[i]]],
                       centerId |-> centerId]

\* layoutAndPackGroups' call of packCircles
PackCircles ==
  /\ packResult.status = "idle"
  /\ packResult' = [status |-> "ok", circles |-> packCircles(packInput)]
  /\ UNCHANGED packInput
  /\ UNCHANGED otherThanPack

PackNext == PackCircles

SpecPack == PackInit /\ [][PackNext]_vars

(***************************************************************************)
(* SigmaCanvas: expand, hide, drag, relayout of the visible structure.     *)
(* Node ids are strings whose order under Array.sort() is the order of the *)
(* numbers that stand for them here.  x and y are in hundredths of a       *)
(* pixel, sizes in pixels; buildGraph gives every node a finite x, y and   *)
(* size, so readNumber never returns null for them.                        *)
(***************************************************************************)
MAX_PER_RING == 12               \* maxPerRing
RING_GAP == 140                  \* ringGap
Y_STEP == 150                    \* yStep

\* Faulty variant: the targets of the outgoing edges of every type
TargetsOfEveryType(edges, nodeId) ==
  LET out == SelectSeq(edges, LAMBDA e : e.source = nodeId)
  IN [i \in DOMAIN out |-> out[i].target]

\* graph.forEachOutEdge(nodeId, ...) restricted to structural edges: the
\* targets, in edge order
StructuralTargets(edges, nodeId) ==
  LET out == SelectSeq(edges, LAMBDA e : e.source = nodeId /\ e.edgeType = "structural")
  IN [i \in DOMAIN out |-> out[i].target]

SetPosition(nodes, id, x, y) == [nodes EXCEPT ![id].x = x, ![id].y = y]

\* v * w / 100000 for a signed w, rounded towards zero
ScaledCos(v, w) == IF w >= 0 THEN MulDiv(v, w, 100000) ELSE 0 - MulDiv(v, 0 - w, 100000)

\* parentX + Math.cos(angle) * r, parentY + Math.sin(angle) * r; r in
\* hundredths of a pixel
Around(parent, r, angle) ==
  [x |-> parent.x + ScaledCos(r, Cos(angle)), y |-> parent.y + ScaledCos(r, Sin(angle))]

minSeparation(parentSize) == Max2(120, parentSize * 12)

\* shouldReposition: Math.sqrt(dx * dx + dy * dy) < minSeparation, read from
\* the graph as it is when the test runs
shouldReposition(nodes, childId, parent) ==
  LET dx == Abs(nodes[childId].x - parent.x)
      dy == Abs(nodes[childId].y - parent.y)
      limit == Px(minSeparation(parent.size))
  IN dx < limit /\ dy < limit /\ dx * dx + dy * dy < limit * limit

\* baseRadius + densityBoost + avgChildSize * 6 of the circle branches
CircleRadius(nodes, parent, children) ==
  Px(Max2(300, parent.size * 28))
    + Isqrt(Len(children) * 1300 * 1300) * 10
    + (SumSeq([i \in DOMAIN children |-> nodes[children[i]].size]) * 600)
        \div Max2(1, Len(children))

\* clamp(rawRadius, 180, 6000)
clamp(value, min, max) == Min2(max, Max2(min, value))

RECURSIVE PlaceOnCircle(_, _, _, _, _)
\* children.forEach((childId, index) => ...) of the circle branches; index
\* counts from 0
PlaceOnCircle(nodes, children, index, parent, radius) ==
  IF index >= Len(children) THEN nodes
  ELSE LET childId == children[index + 1]
           at == Around(parent, radius + Px(nodes[childId].size * 8),
                        (index * FullTurn) \div Max2(1, Len(children)) - 90000)
       IN PlaceOnCircle(SetPosition(nodes, childId, at.x, at.y),
                        children, index + 1, parent, radius)

\* parentX + minDx + childSize * 8
desiredX(nodes, childId, parent) ==
  parent.x + Px(Max2(520, parent.size * 24) + nodes[childId].size * 8)

\* parentY + (index - mid) * (yStep + childSize * 4), mid = (length - 1) / 2
SlotY(nodes, childId, parent, index, length) ==
  parent.y + (2 * index - (length - 1)) * (Y_STEP + nodes[childId].size * 4) * 50

\* candidates.sort((a, b) => ay - by)
SortedByY(nodes, candidates) ==
  SortByKey(candidates, [id \in Range(candidates) |-> nodes[id].y])

\* the body of candidates.forEach of handleExpandNode's layered branch: x is
\* written first, and shouldReposition then reads the graph
ExpandLayeredChild(nodes, childId, parent, index, length) ==
  LET pushed == IF nodes[childId].x < desiredX(nodes, childId, parent)
                  THEN [nodes EXCEPT ![childId].x = desiredX(nodes, childId, parent)]
                  ELSE nodes
  IN IF shouldReposition(pushed, childId, parent)
       THEN [pushed EXCEPT ![childId].y = SlotY(nodes, childId, parent, index, length)]
       ELSE pushed

RECURSIVE ExpandLayered(_, _, _, _)
ExpandLayered(nodes, candidates, index, parent) ==
  IF index >= Len(candidates) THEN nodes
  ELSE ExpandLayered(ExpandLayeredChild(nodes, candidates[index + 1], parent, index,
                                        Len(candidates)),
                     candidates, index + 1, parent)

\* Faulty variant: one ring takes all the children
RingSlotOneRing(nodes, childId, parent, index, length) ==
  Around(parent, Px(Max2(140, parent.size * 14) + nodes[childId].size * 6),
         (index * FullTurn) \div Max2(1, length))

\* ring of the child with this index, and its place on that ring
RingSlot(nodes, childId, parent, index, length) ==
  LET ringIndex == index \div MAX_PER_RING
      indexInRing == index % MAX_PER_RING
      countInRing == Min2(MAX_PER_RING, length - ringIndex * MAX_PER_RING)
  IN Around(parent,
            Px(Max2(140, parent.size * 14) + ringIndex * RING_GAP + nodes[childId].size * 6),
            (indexInRing * FullTurn) \div Max2(1, countInRing))

\* the body of newlyRevealed.forEach of handleExpandNode's ring branch
ExpandRingChild(nodes, childId, parent, index, length) ==
  IF ~shouldReposition(nodes, childId, parent) THEN nodes
  ELSE SetPosition(nodes, childId, RingSlot(nodes, childId, parent, index, length).x,
                   RingSlot(nodes, childId, parent, index, length).y)

RECURSIVE ExpandRing(_, _, _, _)
ExpandRing(nodes, newlyRevealed, index, parent) ==
  IF index >= Len(newlyRevealed) THEN nodes
  ELSE ExpandRing(ExpandRingChild(nodes, newlyRevealed[index + 1], parent, index,
                                  Len(newlyRevealed)),
                  newlyRevealed, index + 1, parent)

RECURSIVE Reveal(_, _, _)
\* graph.forEachOutEdge of handleExpandNode: every structural child is shown,
\* those that were hidden are the newly revealed ones
Reveal(nodes, targets, newlyRevealed) ==
  IF targets = <<>> THEN [nodes |-> nodes, newlyRevealed |-> newlyRevealed]
  ELSE Reveal([nodes EXCEPT ![Head(targets)].hidden = FALSE], Tail(targets),
              IF nodes[Head(targets)].hidden THEN Append(newlyRevealed, Head(targets))
              ELSE newlyRevealed)

\* if (structuralChildren.length > 0) { ... } on the graph after the reveal
ExpandRevealed(r, structuralChildren, parent, mode, layout) ==
  IF structuralChildren = <<>> THEN r.nodes
  ELSE IF mode = "circle" /\ r.newlyRevealed # <<>>
    THEN PlaceOnCircle(r.nodes, r.newlyRevealed, 0, parent,
                       CircleRadius(r.nodes, parent, r.newlyRevealed))
  ELSE IF layout = "layered"
    THEN ExpandLayered(r.nodes, SortedByY(r.nodes, structuralChildren), 0, parent)
  ELSE ExpandRing(r.nodes, r.newlyRevealed, 0, parent)

handleExpandNode(nodes, edges, nodeId, mode, layout) ==
  ExpandRevealed(Reveal(nodes, StructuralTargets(edges, nodeId), <<>>),
                 StructuralTargets(edges, nodeId), nodes[nodeId], mode, layout)

RECURSIVE HideTargets(_, _)
HideTargets(nodes, targets) ==
  IF targets = <<>> THEN nodes
  ELSE HideTargets([nodes EXCEPT ![Head(targets)].hidden = TRUE], Tail(targets))

\* Faulty variant: the edge type is not looked at
handleHideNodeAnyEdge(nodes, edges, nodeId) ==
  [id \in DOMAIN nodes |->
     IF \E i \in DOMAIN edges : edges[i].source = nodeId /\ edges[i].target = id
       THEN [nodes[id] EXCEPT !.hidden = TRUE]
       ELSE nodes[id]]

handleHideNode(nodes, edges, nodeId) ==
  HideTargets(nodes, StructuralTargets(edges, nodeId))

\* the three placements of relayoutVisibleStructuralNodes for the movable
\* children of one parent
RECURSIVE RelayoutLayered(_, _, _, _)
RelayoutLayered(nodes, candidates, index, parent) ==
  IF index >= Len(candidates) THEN nodes
  ELSE RelayoutLayered(
         SetPosition(nodes, candidates[index + 1],
                     desiredX(nodes, candidates[index + 1], parent),
                     SlotY(nodes, candidates[index + 1], parent, index, Len(candidates))),
         candidates, index + 1, parent)

RECURSIVE RelayoutRing(_, _, _, _)
RelayoutRing(nodes, sortedChildren, index, parent) ==
  IF index >= Len(sortedChildren) THEN nodes
  ELSE RelayoutRing(
         SetPosition(nodes, sortedChildren[index + 1],
                     RingSlot(nodes, sortedChildren[index + 1], parent, index,
                              Len(sortedChildren)).x,
                     RingSlot(nodes, sortedChildren[index + 1], parent, index,
                              Len(sortedChildren)).y),
         sortedChildren, index + 1, parent)

\* [...movableChildren].sort()
SortedById(ids) == SortByKey(ids, [id \in Range(ids) |-> id])

RelayoutChildren(nodes, movableChildren, parent, mode, layout) ==
  IF movableChildren = <<>> THEN nodes
  ELSE IF mode = "circle"
    THEN PlaceOnCircle(nodes, SortedById(movableChildren), 0, parent,
                       clamp(CircleRadius(nodes, parent, movableChildren), Px(180), Px(6000)))
  ELSE IF layout = "layered"
    THEN RelayoutLayered(nodes, SortedByY(nodes, movableChildren), 0, parent)
  ELSE RelayoutRing(nodes, SortedById(movableChildren), 0, parent)

RECURSIVE RelayoutFrom(_, _, _, _)
\* while (queue.length > 0); env: [edges, visibleSet, mode, layout]
RelayoutFrom(nodes, queue, visited, env) ==
  IF queue = <<>> THEN nodes
  ELSE IF Head(queue) \in visited THEN RelayoutFrom(nodes, Tail(queue), visited, env)
  ELSE LET parentId == Head(queue)
           visibleStructuralChildren ==
             FilterSeq(StructuralTargets(env.edges, parentId), env.visibleSet)
           movableChildren ==
             FilterSeq(visibleStructuralChildren,
                       {c \in Range(visibleStructuralChildren) : ~nodes[c].pinned})
       IN RelayoutFrom(
            RelayoutChildren(nodes, movableChildren, nodes[parentId], env.mode, env.layout),
            Tail(queue) \o FilterSeq(visibleStructuralChildren,
                                     Range(visibleStructuralChildren) \ (visited \cup {parentId})),
            visited \cup {parentId}, env)

\* the visible nodes in node order, and the roots the walk starts from
VisibleNodes(nodes) ==
  FilterSeq([i \in 1..Cardinality(DOMAIN nodes) |-> i], {id \in DOMAIN nodes : ~nodes[id].hidden})

RelayoutRoots(nodes, edges) ==
  LET visibleNodes == VisibleNodes(nodes)
      advisorRoots == FilterSeq(visibleNodes, {id \in DOMAIN nodes : nodes[id].advisor})
      parentless ==
        FilterSeq(visibleNodes,
                  {id \in DOMAIN nodes :
                     ~\E i \in DOMAIN edges :
                        /\ edges[i].target = id
                        /\ edges[i].edgeType = "structural"
                        /\ ~nodes[edges[i].source].hidden})
  IN SortedById(IF advisorRoots # <<>> THEN advisorRoots ELSE parentless)

relayoutVisibleStructuralNodes(nodes, edges, mode, layout) ==
  RelayoutFrom(nodes, RelayoutRoots(nodes, edges), {},
               [edges |-> edges,
                visibleSet |-> {id \in DOMAIN nodes : ~nodes[id].hidden},
                mode |-> mode, layout |-> layout])

\* ---- the canvas as a state machine ----------------------------------------
\* the children counts of the enumerated graphs
ChildCounts == {k \in 1..MaxChildren : k <= 3 \/ k = 5 \/ k = MaxChildren}

\* where the initial layout left child number j of the root (the root is at
\* the origin): near the root, far from it on its left, or far on its right
NearRoot(j) == [x |-> Px(j), y |-> Px(((j * 5) % 13) * 8 - 48)]
FarLeft(j) == [x |-> Px(0 - 300 - j), y |-> Px(400 + ((j * 5) % 13) * 8)]
FarRight(j) == [x |-> Px(2000), y |-> Px(0 - 100 * j)]

InitialPosition(pattern, j) ==
  IF pattern = "near" THEN NearRoot(j)
  ELSE IF pattern = "far" THEN FarLeft(j)
  ELSE IF j % 3 = 1 THEN NearRoot(j)
  ELSE IF j % 3 = 2 THEN FarLeft(j)
  ELSE FarRight(j)

\* buildGraph: sizes 16 (advisor), 12 (client), 10 (portfolio), 8 (other);
\* every node that is not an advisor starts hidden
CanvasNode(at, size, advisor) ==
  [x |-> at.x, y |-> at.y, size |-> size, hidden |-> ~advisor, pinned |-> FALSE,
   advisor |-> advisor]

\* an advisor (node 1) with k structural children (nodes 2 .. k + 1) and, with
\* a grandchild, node k + 2 under node 2, which the advisor also reaches over
\* a transactional edge
BuiltNodes(k, pattern, mixed, grandchild) ==
  [id \in 1..(k + 1 + (IF grandchild THEN 1 ELSE 0)) |->
     IF id = 1 THEN CanvasNode([x |-> 0, y |-> 0], 16, TRUE)
     ELSE IF id = k + 2 THEN CanvasNode([x |-> Px(30), y |-> Px(10)], 10, FALSE)
     ELSE CanvasNode(InitialPosition(pattern, id - 1),
                     IF mixed /\ id % 2 = 1 THEN 8 ELSE 12, FALSE)]

BuiltEdges(k, grandchild) ==
  [i \in 1..k |-> [source |-> 1, target |-> i + 1, edgeType |-> "structural"]]
    \o (IF grandchild
          THEN <<[source |-> 1, target |-> k + 2, edgeType |-> "transactional"],
                 [source |-> 2, target |-> k + 2, edgeType |-> "structural"]>>
          ELSE <<>>)

\* two advisors in a row: advisor 1 over advisor 2 over client 3 over
\* portfolio 4, all edges structural; with a cycle, 3 also points back to 2
NestedNodes ==
  <<CanvasNode([x |-> 0, y |-> 0], 16, TRUE),
    CanvasNode([x |-> Px(900), y |-> Px(100)], 16, TRUE),
    CanvasNode([x |-> Px(910), y |-> Px(120)], 12, FALSE),
    CanvasNode([x |-> Px(0 - 700), y |-> Px(350)], 10, FALSE)>>

NestedEdges(cycle) ==
  [i \in 1..3 |-> [source |-> i, target |-> i + 1, edgeType |-> "structural"]]
    \o (IF cycle THEN <<[source |-> 3, target |-> 2, edgeType |-> "structural"]>>
         ELSE <<>>)

\* where a node is dropped at the end of a drag
DropPoints == {[x |-> Px(40), y |-> Px(30)], [x |-> Px(0 - 900), y |-> Px(700)]}

CanvasInit ==
  /\ ElkIdle /\ MindIdle /\ GroupIdle /\ PackIdle /\ ApplyIdle /\ HandleIdle /\ AppIdle
  /\ expandMode = "structure"
  /\ isInitialLayoutReady = FALSE
  /\ canvasEvents = [count |-> 0, last |-> [op |-> "built"]]
  /\ \E layout \in {"layered", "radial"} :
       /\ layoutMode = layout
       /\ \/ \E k \in ChildCounts, pattern \in {"near", "far", "mixed"},
                mixed \in BOOLEAN, grandchild \in BOOLEAN :
               /\ mixed => k <= 3
               /\ grandchild => k <= 2
               /\ canvasNodes = BuiltNodes(k, pattern, mixed, grandchild)
               /\ canvasEdges = BuiltEdges(k, grandchild)
          \/ \E cycle \in BOOLEAN :
               /\ canvasNodes = NestedNodes
               /\ canvasEdges = NestedEdges(cycle)

CanvasEvent(event) ==
  /\ canvasEvents.count < MaxCanvasEvents
  /\ canvasEvents' = [count |-> canvasEvents.count + 1, last |-> event]
  /\ UNCHANGED <<canvasEdges, layoutMode>>
  /\ UNCHANGED otherThanCanvas

\* the context menu's Expand on a visible node that has structural children;
\* the canvas takes pointer events only once the initial layout is ready
ExpandNode(nodeId) ==
  /\ isInitialLayoutReady
  /\ ~canvasNodes[nodeId].hidden
  /\ StructuralTargets(canvasEdges, nodeId) # <<>>
  /\ canvasNodes' = handleExpandNode(canvasNodes, canvasEdges, nodeId, expandMode, layoutMode)
  /\ UNCHANGED <<expandMode, isInitialLayoutReady>>
  /\ CanvasEvent([op |-> "expand", node |-> nodeId])

\* the context menu's Hide on a visible node that has structural children
HideNode(nodeId) ==
  /\ isInitialLayoutReady
  /\ ~canvasNodes[nodeId].hidden
  /\ StructuralTargets(canvasEdges, nodeId) # <<>>
  /\ canvasNodes' = handleHideNode(canvasNodes, canvasEdges, nodeId)
  /\ UNCHANGED <<expandMode, isInitialLayoutReady>>
  /\ CanvasEvent([op |-> "hide", node |-> nodeId])

\* downNode, mouse moves that end at a drop point, stopDragging
DragNode(nodeId, at) ==
  /\ isInitialLayoutReady
  /\ nodeId <= MaxDragged
  /\ ~canvasNodes[nodeId].hidden
  /\ canvasNodes' = [canvasNodes EXCEPT ![nodeId].x = at.x, ![nodeId].y = at.y,
                                        ![nodeId].pinned = TRUE]
  /\ UNCHANGED <<expandMode, isInitialLayoutReady>>
  /\ CanvasEvent([op |-> "drag", node |-> nodeId])

\* the effect on [expandMode, graph, isInitialLayoutReady, layoutMode]
RelayoutEffect(ready, mode) ==
  IF ready THEN relayoutVisibleStructuralNodes(canvasNodes, canvasEdges, mode, layoutMode)
  ELSE canvasNodes

\* the Structure / Circle buttons: setExpandMode, then the effect
SetExpandMode(mode) ==
  /\ isInitialLayoutReady
  /\ mode # expandMode
  /\ expandMode' = mode
  /\ canvasNodes' = RelayoutEffect(isInitialLayoutReady, mode)
  /\ UNCHANGED isInitialLayoutReady
  /\ CanvasEvent([op |-> "relayout", node |-> 0])

\* handleLayoutStop, called by ElkLayout when the initial layout is done:
\* setIsInitialLayoutReady(true), then the effect
LayoutStop ==
  /\ ~isInitialLayoutReady
  /\ isInitialLayoutReady' = TRUE
  /\ canvasNodes' = RelayoutEffect(TRUE, expandMode)
  /\ canvasEvents' = [canvasEvents EXCEPT !.last = [op |-> "relayout", node |-> 0]]
  /\ UNCHANGED <<expandMode, canvasEdges, layoutMode>>
  /\ UNCHANGED otherThanCanvas

CanvasNext ==
  \/ \E nodeId \in DOMAIN canvasNodes : ExpandNode(nodeId)
  \/ \E nodeId \in DOMAIN canvasNodes : HideNode(nodeId)
  \/ \E nodeId \in DOMAIN canvasNodes, at \in DropPoints : DragNode(nodeId, at)
  \/ \E mode \in {"structure", "circle"} : SetExpandMode(mode)
  \/ LayoutStop

SpecCanvas == CanvasInit /\ [][CanvasNext]_vars

(***************************************************************************)
(* useLayout: applyLayout.  The call runs up to its first await in one     *)
(* step; a call whose solver raised waits for elk.layout, and other calls  *)
(* may start and settle meanwhile.  nodesState and edgesState are what the *)
(* setNodes and setEdges of the hook's caller hold.                        *)
(***************************************************************************)
\* the options applyLayout passes to the solver
ApplyOptions == [preferredRootIds |-> <<>>, componentPacking |-> "horizontal"]

\* the recursion of assignAngles needs one frame per tree level; the engine
\* raises RangeError when the call stack cannot hold them
StackChecked(r) ==
  IF /\ r.status = "ok"
     /\ \E i \in DOMAIN r.componentResults :
          /\ "maxDepth" \in DOMAIN r.componentResults[i]
          /\ r.componentResults[i].maxDepth + 1 > MaxCallDepth
    THEN [status |-> "throw"]
    ELSE r

\* nodesToLayout.map(node => ({...node, position: positions.get(node.id) ?? ...}))
finalNodes(nodeList, positions) ==
  [i \in DOMAIN nodeList |->
     [nodeList[i] EXCEPT !.position =
        Present(IF nodeList[i].id \in DOMAIN positions THEN positions[nodeList[i].id]
                ELSE IF nodeList[i].position # Absent THEN nodeList[i].position[1]
                ELSE [x |-> 0, y |-> 0])]]

\* Faulty variant: a tie between the axes goes to the vertical side
decideHandleStrict(dx, dy) ==
  IF Abs(dx) > Abs(dy) THEN (IF dx >= 0 THEN "right" ELSE "left")
  ELSE (IF dy >= 0 THEN "bottom" ELSE "top")

decideHandle(dx, dy) ==
  IF Abs(dx) >= Abs(dy) THEN (IF dx >= 0 THEN "right" ELSE "left")
  ELSE (IF dy >= 0 THEN "bottom" ELSE "top")

\* { ...edge, sourceHandle, targetHandle }: the fields of the edge, with the
\* two handles set
mapEdgesWithHandles(edges, positions) ==
  [i \in DOMAIN edges |->
     LET sourcePosition == GetOr(positions, edges[i].source, [x |-> 0, y |-> 0])
         targetPosition == GetOr(positions, edges[i].target, [x |-> 0, y |-> 0])
     IN [sourceHandle |-> decideHandle(targetPosition.x - sourcePosition.x,
                                       targetPosition.y - sourcePosition.y),
         targetHandle |-> decideHandle(sourcePosition.x - targetPosition.x,
                                       sourcePosition.y - targetPosition.y)]
          @@ edges[i]]

\* what runElkLayout can resolve with: a position for every child (one layer
\* per node here), or no position when the result has no children
ElkOutputs(nodeList) ==
  {[id \in {nodeList[i].id : i \in DOMAIN nodeList} |->
      [x |-> Px(12 + 230 * (id - 1)), y |-> Px(12)]],
   <<>>}

\* the arguments of a call: the lists of the application, or empty lists
CallNodes(call) == IF call.empty THEN <<>> ELSE nodesToLayout
CallEdges(call) == IF call.empty THEN <<>> ELSE edgesToLayout

\* the promise of the call is fulfilled
Settled(call, via) == [call EXCEPT !.promise = "fulfilled", !.via = via]

\* applyLayout from its start to its first await, r being what
\* computeMindMapLayout does on the arguments
ApplyStart(call, r) ==
  IF CallNodes(call) = <<>>
    THEN /\ nodesState' = <<>>
         /\ applyCalls' = Append(applyCalls, Settled(call, "empty"))
         /\ UNCHANGED <<isLayouting, edgesState, consoleLog>>
  ELSE IF r.status = "ok"
    THEN /\ nodesState' = finalNodes(CallNodes(call), r.positions)
         /\ edgesState' = mapEdgesWithHandles(CallEdges(call), r.positions)
         /\ isLayouting' = FALSE
         /\ applyCalls' = Append(applyCalls, Settled(call, "radial"))
         /\ UNCHANGED consoleLog
  ELSE /\ consoleLog' = Append(consoleLog, "Radial layout failed, fallback to ELK:")
       /\ isLayouting' = TRUE
       /\ applyCalls' = Append(applyCalls, call)
       /\ UNCHANGED <<nodesState, edgesState>>

ApplyLayout(empty) ==
  /\ Len(applyCalls) < MaxApplyCalls
  /\ ApplyStart([empty |-> empty, promise |-> "pending", via |-> "none"],
                IF empty THEN Idle
                ELSE StackChecked(computeMindMapLayout(nodesToLayout, edgesToLayout,
                                                       ApplyOptions)))
  /\ UNCHANGED mindVars
  /\ UNCHANGED otherThanApply

\* await runElkLayout(...) resolves: the rest of the inner try, then finally
ElkResolves(i, positions) ==
  /\ i \in DOMAIN applyCalls
  /\ applyCalls[i].promise = "pending"
  /\ nodesState' = finalNodes(CallNodes(applyCalls[i]), positions)
  /\ edgesState' = mapEdgesWithHandles(CallEdges(applyCalls[i]), positions)
  /\ isLayouting' = FALSE
  /\ applyCalls' = [applyCalls EXCEPT ![i] = Settled(applyCalls[i], "elk")]
  /\ UNCHANGED consoleLog
  /\ UNCHANGED mindVars
  /\ UNCHANGED otherThanApply

\* Faulty variant: the failure of the fallback clears the node state
ElkRejectsClearing(i) ==
  /\ i \in DOMAIN applyCalls
  /\ applyCalls[i].promise = "pending"
  /\ consoleLog' = Append(consoleLog, "ELK layout failed:")
  /\ isLayouting' = FALSE
  /\ applyCalls' = [applyCalls EXCEPT ![i] = Settled(applyCalls[i], "failed")]
  /\ nodesState' = <<>>
  /\ UNCHANGED edgesState
  /\ UNCHANGED mindVars
  /\ UNCHANGED otherThanApply

\* await runElkLayout(...) rejects: catch (elkError), then finally
ElkRejects(i) ==
  /\ i \in DOMAIN applyCalls
  /\ applyCalls[i].promise = "pending"
  /\ consoleLog' = Append(consoleLog, "ELK layout failed:")
  /\ isLayouting' = FALSE
  /\ applyCalls' = [applyCalls EXCEPT ![i] = Settled(applyCalls[i], "failed")]
  /\ UNCHANGED <<nodesState, edgesState>>
  /\ UNCHANGED mindVars
  /\ UNCHANGED otherThanApply

ApplyInit ==
  /\ ElkIdle /\ GroupIdle /\ PackIdle /\ CanvasIdle /\ ApplyIdle /\ HandleIdle /\ AppIdle
  /\ layoutResult = Idle
  /\ partition = Idle
  /\ firstComponents = {}
  /\ layoutOptions = ApplyOptions
  /\ \E n \in 1..MaxNodes, E \in EdgeSets(MaxNodes), locked \in LockedChoices :
       /\ \A p \in E : p[2] <= n
       /\ locked \subseteq 1..n
       /\ nodesToLayout = [i \in 1..n |-> AppNode(i, InputLabel(i), {}, locked, {})]
       /\ edgesToLayout = EdgeList(E)

ApplyNext ==
  \/ \E empty \in BOOLEAN : ApplyLayout(empty)
  \/ \E i \in DOMAIN applyCalls :
       \E positions \in ElkOutputs(CallNodes(applyCalls[i])) : ElkResolves(i, positions)
  \/ \E i \in DOMAIN applyCalls : ElkRejects(i)

SpecApply == ApplyInit /\ [][ApplyNext]_vars

\* ---- mapEdgesWithHandles on its own ---------------------------------------
\* the edges of the enumerated lists join the nodes 1 .. 3 in every way, a
\* node with itself included; the map has a position for the nodes 1 and 2
\* and none for node 3
HandleNodes == 1..3

HandleEdgeLists ==
  UNION {[1..k -> [id : {0}, source : HandleNodes, target : HandleNodes]] :
         k \in 1..MaxHandleEdges}

\* the edge ids are distinct and not in list order
WithIds(edges) == [i \in DOMAIN edges |-> [edges[i] EXCEPT !.id = 100 - 7 * i]]

HandleGrid == {0 - 2, 0, 1, 3}

HandleInit ==
  /\ ElkIdle /\ MindIdle /\ GroupIdle /\ PackIdle /\ CanvasIdle /\ ApplyIdle /\ AppIdle
  /\ handleOutput = Idle
  /\ \E edges \in HandleEdgeLists, x1 \in HandleGrid, y1 \in HandleGrid, y2 \in HandleGrid :
       handleInput = [status |-> "given", edges |-> WithIds(edges),
                      positions |-> (1 :> [x |-> x1, y |-> y1]) @@ (2 :> [x |-> 1, y |-> y2])]

\* const finalEdges = mapEdgesWithHandles(edgesToLayout, positions)
MapEdges ==
  /\ handleOutput = Idle
  /\ handleOutput' = [status |-> "ok",
                      edges |-> mapEdgesWithHandles(handleInput.edges, handleInput.positions)]
  /\ UNCHANGED handleInput
  /\ UNCHANGED otherThanHandle

HandleNext == MapEdges

SpecHandles == HandleInit /\ [][HandleNext]_vars

(***************************************************************************)
(* App: the data source, the requests posted to the graph data worker and  *)
(* the responses it posts back.  A click handler or a message handler,     *)
(* the render it causes and the effects of that render are one step.       *)
(***************************************************************************)
BIG_GRAPH_NODE_THRESHOLD == 20000

config ==
  [advisorCount |-> 200, clientsPerAdvisor |-> [min |-> 3, max |-> 8],
   accountsPerClient |-> [min |-> 2, max |-> 5]]

\* Math.round(advisors + clientCount + portfolioCount + accountCount), with
\* the averages (min + max) / 2 kept as their doubles and the sum in quarters
estimateMockNodeCount(cfg) ==
  LET advisors == cfg.advisorCount
      clientCount2 == advisors * (cfg.clientsPerAdvisor.min + cfg.clientsPerAdvisor.max)
      portfolioCount4 ==
        clientCount2 * (cfg.accountsPerClient.min + cfg.accountsPerClient.max)
      accountCount4 == portfolioCount4 * 2
  IN (4 * advisors + 2 * clientCount2 + portfolioCount4 + accountCount4 + 2) \div 4

MockTooBig == estimateMockNodeCount(config) >= BIG_GRAPH_NODE_THRESHOLD

\* useState(() => estimate >= threshold ? "json" : "mock")
InitialSource == IF MockTooBig THEN "json" ELSE "mock"

\* the message requestData posts for the request with this id
RequestMessage(id, source) ==
  [id |-> id, kind |-> IF source = "json" THEN "loadJson" ELSE "generate"]

\* the graph data the worker posts for a request
DataOf(request) == [nodes |-> <<request.kind>>, edges |-> <<request.id>>]

\* the two mount effects: the worker is created, requestData(dataSourceRef.current)
\* is called, and then the effect on [dataSource, requestData] calls
\* requestData(dataSource)
Mount ==
  /\ requestIdRef = 0
  /\ requestIdRef' = 2
  /\ workerInbox' = {RequestMessage(1, dataSource), RequestMessage(2, dataSource)}
  /\ UNCHANGED <<dataSource, initialData, isLoading, loadError, appInbox, delivered>>
  /\ UNCHANGED otherThanApp

\* what setDataSource is called with
SourceSet(next) == IF next = "mock" /\ MockTooBig THEN "json" ELSE next

\* a click on a button of DataSourceToggle, which is rendered only while
\* isLoading is false: handleDataSourceChange(next), and the effect on
\* [dataSource, requestData], which runs only if dataSource has changed
handleDataSourceChange(next) ==
  /\ ~isLoading
  /\ isLoading' = TRUE
  /\ loadError' = IF next = "mock" /\ MockTooBig THEN Present("mock too big") ELSE Absent
  /\ dataSource' = SourceSet(next)
  /\ IF SourceSet(next) # dataSource
       THEN /\ requestIdRef < MaxRequests
            /\ requestIdRef' = requestIdRef + 1
            /\ workerInbox' = workerInbox \cup {RequestMessage(requestIdRef + 1, SourceSet(next))}
       ELSE UNCHANGED <<requestIdRef, workerInbox>>
  /\ UNCHANGED <<initialData, appInbox, delivered>>
  /\ UNCHANGED otherThanApp

\* self.onmessage of the worker up to its post: ok with the graph data, or
\* not ok with an error (a failed fetch, a wrong format, an exception)
WorkerAnswers(request, ok) ==
  /\ request \in workerInbox
  /\ workerInbox' = workerInbox \ {request}
  /\ appInbox' = appInbox \cup
       {IF ok THEN [id |-> request.id, ok |-> TRUE, data |-> DataOf(request)]
        ELSE [id |-> request.id, ok |-> FALSE, error |-> "failed"]}
  /\ UNCHANGED <<dataSource, initialData, isLoading, loadError, requestIdRef, delivered>>
  /\ UNCHANGED otherThanApp

\* Faulty variant: the id of the response is not compared
IsCurrentResponseAny(record) == TRUE

\* if (record.id !== requestIdRef.current) return
IsCurrentResponse(record) == record.id = requestIdRef

\* worker.onmessage of App
Deliver(record) ==
  /\ record \in appInbox
  /\ appInbox' = appInbox \ {record}
  /\ delivered' = delivered \cup {[id |-> record.id, stale |-> record.id # requestIdRef]}
  /\ IF ~IsCurrentResponse(record)
       THEN UNCHANGED <<initialData, loadError, isLoading>>
       ELSE IF record.ok
         THEN /\ initialData' = record.data
              /\ loadError' = Absent
              /\ isLoading' = FALSE
         ELSE /\ loadError' = Present(record.error)
              /\ isLoading' = FALSE
              /\ UNCHANGED initialData
  /\ UNCHANGED <<dataSource, requestIdRef, workerInbox>>
  /\ UNCHANGED otherThanApp

AppInit ==
  /\ ElkIdle /\ MindIdle /\ GroupIdle /\ PackIdle /\ CanvasIdle /\ ApplyIdle /\ HandleIdle
  /\ AppIdle
  /\ dataSource = InitialSource

AppNext ==
  \/ Mount
  \/ \E next \in {"mock", "json"} : handleDataSourceChange(next)
  \/ \E request \in workerInbox, ok \in BOOLEAN : WorkerAnswers(request, ok)
  \/ \E record \in appInbox : Deliver(record)

SpecApp == AppInit /\ [][AppNext]_vars

\* the effects of the mount run, the worker answers every request it
\* receives, and every message it posts is delivered
AppRuns ==
  /\ WF_vars(Mount)
  /\ \A id \in 1..MaxRequests :
       /\ WF_vars(\E request \in workerInbox, ok \in BOOLEAN :
                    request.id = id /\ WorkerAnswers(request, ok))
       /\ WF_vars(\E record \in appInbox : record.id = id /\ Deliver(record))

SpecAppLive == SpecApp /\ AppRuns

(***************************************************************************)
(* Claims                                                                  *)
(***************************************************************************)
LayoutDone == layoutResult.status = "ok"

InputIds == NodeIds(nodesToLayout)

InputNode(id) == nodesToLayout[CHOOSE i \in DOMAIN nodesToLayout : nodesToLayout[i].id = id]

LockedWithPosition(id) == isNodeLocked(InputNode(id)) /\ InputNode(id).position # Absent

\* C1: every node flagged locked that carries an input position is returned
\* at exactly that position, whatever relaxation, packing and centring do to
\* the other nodes.
C1_LockedKeepInputPosition ==
  LayoutDone =>
    \A id \in InputIds :
      LockedWithPosition(id) => layoutResult.positions[id] = InputNode(id).position[1]

\* C1 witness: a layout of several components in which a locked node with a
\* position shares its component with an unlocked node that was pushed away
\* from it, next to a component without locked nodes.
C1_Witness ==
  /\ LayoutDone
  /\ Len(layoutResult.components) >= 2
  /\ \E i \in DOMAIN layoutResult.componentResults :
       LET r == layoutResult.componentResults[i]
       IN /\ \E id \in Range(r.lockedNodes) : LockedWithPosition(id)
          /\ r.movableNodes # <<>>
          /\ r.depthOffsets # r.afterRadial
  /\ \E i \in DOMAIN layoutResult.componentResults :
       ~layoutResult.componentResults[i].hasLocked

\* C2: the returned mapping has an entry for every input node id and for no
\* other id.
C2_ExactlyTheInputIds ==
  LayoutDone => DOMAIN layoutResult.positions = InputIds

\* C2 witness: a returned layout of a graph with a locked node, several
\* components and an edge to an id that is not in the node list.
C2_Witness ==
  /\ LayoutDone
  /\ Len(layoutResult.components) >= 2
  /\ \E id \in InputIds : isNodeLocked(InputNode(id))
  /\ \E i \in DOMAIN edgesToLayout : edgesToLayout[i].source \in MissingIds
  /\ \E i \in DOMAIN layoutResult.components :
       Range(layoutResult.components[i]) \cap MissingIds # {}

PartitionDone == partition.status = "ok"

Occurrences(components, id) ==
  Cardinality({p \in {q \in (DOMAIN components) \X (1..(MaxNodes + 2)) :
                        q[2] <= Len(components[q[1]])} :
                 components[p[1]][p[2]] = id})

\* C4: every input node is in exactly one component, exactly once.
C4_EveryNodeInOneComponent ==
  PartitionDone => \A id \in InputIds : Occurrences(partition.components, id) = 1

\* C4 witness: a partition into several components, one of them with several
\* nodes reached over an edge.
C4_Witness ==
  /\ PartitionDone
  /\ Len(partition.components) >= 2
  /\ \E i \in DOMAIN partition.components :
       Cardinality(Range(partition.components[i]) \cap InputIds) >= 2

\* C5: whatever the order of the node list and of the edge list, the
\* components, as sets of node ids, are those of the lists as first given.
C5_PartitionOrderIndependent ==
  PartitionDone => ComponentSets(partition.components, InputIds) = firstComponents

\* C5 witness: the partition of lists that are both out of their first order,
\* with a component of several nodes.
C5_Witness ==
  /\ PartitionDone
  /\ \E i \in DOMAIN nodesToLayout : nodesToLayout[i].id # i
  /\ edgesToLayout # EdgeList({<<edgesToLayout[i].source, edgesToLayout[i].target>> :
                                 i \in DOMAIN edgesToLayout})
  /\ \E S \in firstComponents : Cardinality(S) >= 2

\* the edges whose two endpoints are ids of the node list
KnownEdges(nodeList, edges) ==
  SelectSeq(edges, LAMBDA e : e.source \in NodeIds(nodeList) /\ e.target \in NodeIds(nodeList))

\* two solver results agree on what a caller can tell apart: the components
\* of the input ids, and per component the degrees, roots, depths, positions
SameLayout(ids, a, b) ==
  /\ a.status = b.status
  /\ a.status = "ok" =>
       /\ ComponentSets(a.components, ids) \ {{}} = ComponentSets(b.components, ids) \ {{}}
       /\ \A id \in ids : a.nodes[id].degree = b.nodes[id].degree
       /\ \A i \in DOMAIN a.componentResults :
            a.componentResults[i].componentNodes # <<>> =>
              \E j \in DOMAIN b.componentResults :
                /\ b.componentResults[j].componentNodes # <<>>
                /\ a.componentResults[i].pseudoRoots = b.componentResults[j].pseudoRoots
                /\ \A id \in Range(a.componentResults[i].componentNodes) :
                     /\ id \in DOMAIN b.componentResults[j].clusterDepthById
                     /\ a.componentResults[i].clusterDepthById[id]
                          = b.componentResults[j].clusterDepthById[id]
       /\ a.positions = b.positions

\* C6: an edge with an endpoint outside the node set is dropped: the solver
\* returns the same components, degrees, roots, depths and positions as it
\* does for the input without such edges.
C6_DanglingEdgesDropped ==
  layoutResult.status # "idle" =>
    SameLayout(InputIds, layoutResult,
               computeMindMapLayout(nodesToLayout,
                                    KnownEdges(nodesToLayout, edgesToLayout),
                                    layoutOptions))

\* C10: after the relaxation passes, any two unlocked nodes of one component
\* at the same depth have disjoint boxes, each padded by half the node margin.
C10_SameDepthBoxesDisjoint ==
  LayoutDone =>
    \A i \in DOMAIN layoutResult.componentResults :
      LET r == layoutResult.componentResults[i]
      IN r.componentNodes # <<>> =>
           \A a \in Range(r.movableNodes), b \in Range(r.movableNodes) :
             (a # b /\ r.clusterDepthById[a] = r.clusterDepthById[b]) =>
               ~boxOverlap(r.positions[a], layoutResult.nodes[a],
                           r.positions[b], layoutResult.nodes[b], NODE_MARGIN \div 2)

GroupsDone == groupResult.status # "idle"

RECURSIVE ConnectedTo(_, _)
\* the nodes joined to a node of S by a path of edges of any type and direction
ConnectedTo(g, S) ==
  LET next == S \cup {g.edges[i].source : i \in {j \in DOMAIN g.edges : g.edges[j].target \in S}}
                \cup {g.edges[i].target : i \in {j \in DOMAIN g.edges : g.edges[j].source \in S}}
  IN IF next = S THEN S ELSE ConnectedTo(g, next)

\* C7: on a graph with at least one advisor buildAdvisorGroups returns without
\* raising, and a node that no chain of edges joins to an advisor is in no
\* group.
C7_GroupsWithoutRaising ==
  (GroupsDone /\ groupGraph.advisor # {}) =>
    /\ groupResult.status = "ok"
    /\ \A i \in DOMAIN groupResult.groups :
         \A id \in Range(groupResult.groups[i].nodeIds) :
           ConnectedTo(groupGraph, {id}) \cap groupGraph.advisor # {}

PackDone == packResult.status = "ok"

\* C8: the map packCircles returns has an entry for every input circle, also
\* for a circle that found no free slot below the attempt cap.
C8_EveryCirclePlaced ==
  PackDone =>
    \A i \in DOMAIN packInput.circles :
      packInput.circles[i].id \in DOMAIN packResult.circles

\* the circle packCircles puts at the origin: the one named by centerId, or
\* the first circle of the largest radius when centerId names none
DesignatedCenter ==
  IF \E i \in DOMAIN packInput.circles : packInput.circles[i].id = packInput.centerId
    THEN packInput.centerId
    ELSE packInput.circles[
           CHOOSE i \in DOMAIN packInput.circles :
             /\ \A j \in DOMAIN packInput.circles :
                  packInput.circles[j].radius <= packInput.circles[i].radius
             /\ \A j \in DOMAIN packInput.circles :
                  j < i => packInput.circles[j].radius < packInput.circles[i].radius].id

\* C9: any two circles of the returned map are at least the sum of their
\* radii apart, and the designated centre circle is at (0, 0).
C9_PackedCirclesApart ==
  PackDone =>
    /\ \A a \in DOMAIN packResult.circles, b \in DOMAIN packResult.circles :
         a # b => DistanceSquared(packResult.circles[a], packResult.circles[b])
                    >= (packResult.circles[a].radius + packResult.circles[b].radius)
                         * (packResult.circles[a].radius + packResult.circles[b].radius)
    /\ packInput.circles # <<>> =>
         /\ DesignatedCenter \in DOMAIN packResult.circles
         /\ packResult.circles[DesignatedCenter].x = 0
         /\ packResult.circles[DesignatedCenter].y = 0

\* C9 witness: three circles are in the map, centerId names none of them, and
\* one of them was refused the first slot of the spiral.
C9_Witness ==
  /\ PackDone
  /\ Cardinality(DOMAIN packResult.circles) >= 3
  /\ packInput.centerId = 0
  /\ \E id \in DOMAIN packResult.circles :
       /\ id # DesignatedCenter
       /\ <<packResult.circles[id].x, packResult.circles[id].y>>
            # <<SpiralSlot(StepOf(packInput.circles), 1).x,
                SpiralSlot(StepOf(packInput.circles), 1).y>>

\* the input is a three-node chain: two edges between ids of the node list
\* that share exactly one node, every node unlocked and of the default size
IsChain ==
  /\ Len(nodesToLayout) = 3
  /\ Len(edgesToLayout) = 2
  /\ \A i \in DOMAIN edgesToLayout :
       {edgesToLayout[i].source, edgesToLayout[i].target} \subseteq InputIds
  /\ \A id \in InputIds : ~isNodeLocked(InputNode(id)) /\ InputNode(id).measured = Absent

\* the node both edges of the chain touch, and the two other nodes
ChainMiddle ==
  CHOOSE id \in InputIds :
    \A i \in DOMAIN edgesToLayout : id \in {edgesToLayout[i].source, edgesToLayout[i].target}

ChainEnds == InputIds \ {ChainMiddle}

\* depth and ring radius (in pixels) the solver gave a node of its first component
ChainDepth(id) == layoutResult.componentResults[1].clusterDepthById[id]

ChainRadius(id) ==
  getRadiusForDepth([maxDepth |-> layoutResult.componentResults[1].maxDepth,
                     hasMultiRoots |-> layoutResult.componentResults[1].hasMultiRoots],
                    layoutResult.componentResults[1].depthOffsets, ChainDepth(id))

\* the chain read from its end a: a at the origin, the middle on the first
\* ring, the other end on the second ring
ChainFromEnd(a) ==
  /\ ChainDepth(a) = 0 /\ ChainRadius(a) = 0
  /\ ChainDepth(ChainMiddle) = 1 /\ ChainRadius(ChainMiddle) = FIRST_RADIUS
  /\ \A c \in ChainEnds \ {a} :
       ChainDepth(c) = 2 /\ ChainRadius(c) = FIRST_RADIUS + LEVEL_GAP

\* C11 as stated: for the chain A-B-C without preferred roots the end A is at
\* depth 0 and radius 0, B at depth 1 and radius 220, C at depth 2 and radius
\* 420.
C11_ChainRootedAtItsEnd ==
  (LayoutDone /\ IsChain /\ layoutOptions.preferredRootIds = <<>>) =>
    \E a \in ChainEnds : ChainFromEnd(a)

\* C11 amended: without preferred roots the middle node B, the node of the
\* highest degree, is the root at depth 0 and radius 0 and both A and C are at
\* depth 1 and radius 220; the depths 0, 1, 2 and the radii 0, 220, 420 are
\* those of the chain whose end A is the only preferred root.
C11_ChainRootedAtItsMiddle ==
  (LayoutDone /\ IsChain) =>
    /\ layoutOptions.preferredRootIds = <<>> =>
         /\ ChainDepth(ChainMiddle) = 0 /\ ChainRadius(ChainMiddle) = 0
         /\ \A e \in ChainEnds : ChainDepth(e) = 1 /\ ChainRadius(e) = FIRST_RADIUS
    /\ \A a \in ChainEnds :
         layoutOptions.preferredRootIds = <<a>> => ChainFromEnd(a)

\* C11 witness: the chain 1-2-3 has been laid out without preferred roots and
\* without any ring being pushed outward.
C11_Witness ==
  /\ LayoutDone /\ IsChain
  /\ layoutOptions.preferredRootIds = <<>>
  /\ ChainMiddle = 2
  /\ layoutResult.componentResults[1].pseudoRoots = <<2>>
  /\ \A d \in DOMAIN layoutResult.componentResults[1].depthOffsets :
       layoutResult.componentResults[1].depthOffsets[d] = 0

\* C11 witness of the preferred-root case: the chain 1-2-3 laid out from its
\* preferred end 1.
C11_WitnessPreferredEnd ==
  /\ LayoutDone /\ IsChain
  /\ layoutOptions.preferredRootIds = <<1>>
  /\ 1 \in ChainEnds
  /\ ChainDepth(1) = 0

RECURSIVE GroupOf(_)
\* the input nodes joined to a node of S by a chain of edges between nodes of
\* the input
GroupOf(S) ==
  LET known == KnownEdges(nodesToLayout, edgesToLayout)
      next == S \cup {known[i].source : i \in {j \in DOMAIN known : known[j].target \in S}}
                \cup {known[i].target : i \in {j \in DOMAIN known : known[j].source \in S}}
  IN IF next = S THEN S ELSE GroupOf(next)

\* the mutually disconnected groups of the input
NodeGroups == {GroupOf({id}) : id \in InputIds}

NoneLocked == \A id \in InputIds : ~isNodeLocked(InputNode(id))

\* the bounding box of a set of nodes at their returned positions
FinalBox(S) ==
  toBoundingBox([id \in S |-> layoutResult.positions[id]], layoutResult.nodes)

\* two boxes follow each other along the packing axis with the gap between them
GapBetween(a, b) ==
  IF layoutOptions.componentPacking = "vertical"
    THEN a.maxY + Px(COMPONENT_GAP) <= b.minY \/ b.maxY + Px(COMPONENT_GAP) <= a.minY
    ELSE a.maxX + Px(COMPONENT_GAP) <= b.minX \/ b.maxX + Px(COMPONENT_GAP) <= a.minX

\* the solver's components, as the sets of input nodes they hold
SolverGroups == ComponentSets(layoutResult.components, InputIds) \ {{}}

\* C12: without locked nodes the k mutually disconnected groups of the input
\* are exactly the solver's k components, and in the returned positions the
\* bounding boxes of any two of them are at least the component gap apart
\* along the packing axis.
C12_ComponentsPackedApart ==
  (LayoutDone /\ NoneLocked) =>
    /\ SolverGroups = NodeGroups
    /\ Cardinality({i \in DOMAIN layoutResult.componentResults :
                      layoutResult.componentResults[i].componentNodes # <<>>})
         = Cardinality(NodeGroups)
    /\ \A G \in NodeGroups, H \in NodeGroups :
         G # H => GapBetween(FinalBox(G), FinalBox(H))

\* the same for the inputs all of whose edges join two nodes of the input
C12_WithoutDanglingEdges ==
  (LayoutDone /\ NoneLocked
     /\ KnownEdges(nodesToLayout, edgesToLayout) = edgesToLayout) =>
    /\ SolverGroups = NodeGroups
    /\ \A G \in NodeGroups, H \in NodeGroups :
         G # H => GapBetween(FinalBox(G), FinalBox(H))

\* the canvas event the step handles, when it handles one
Handled(op) == canvasEvents' # canvasEvents /\ canvasEvents'.last.op = op

SamePlace(id) ==
  /\ canvasNodes'[id].x = canvasNodes[id].x
  /\ canvasNodes'[id].y = canvasNodes[id].y

\* C13: an expand action or a global relayout leaves the x and y of every
\* pinned node as they are, in either expand mode (layoutMode is "layered",
\* as the canvas sets it).
C13_PinnedStaysPut ==
  [][(layoutMode = "layered" /\ (Handled("expand") \/ Handled("relayout"))) =>
       \A id \in DOMAIN canvasNodes : canvasNodes[id].pinned => SamePlace(id)]_vars

\* C13 for the global relayout alone
C13_RelayoutKeepsPinned ==
  [][Handled("relayout") =>
       \A id \in DOMAIN canvasNodes : canvasNodes[id].pinned => SamePlace(id)]_vars

\* the step is an expand of parent, all of whose structural children were
\* already visible
ReExpand(parent) ==
  /\ Handled("expand")
  /\ canvasEvents'.last.node = parent
  /\ \A c \in Range(StructuralTargets(canvasEdges, parent)) : ~canvasNodes[c].hidden

\* the child is at least minSeparation away from the parent
FarEnough(childId, parent) == ~shouldReposition(canvasNodes, childId, canvasNodes[parent])

\* C14: an expand of a parent whose structural children are all visible
\* changes neither x nor y of a child that is at least minSeparation away
\* from the parent, in the structure and in the circle expand mode (children
\* that were never dragged; layoutMode is "layered", as the canvas sets it).
C14_ReExpandKeepsFarChildren ==
  [][\A parent \in DOMAIN canvasNodes :
       (layoutMode = "layered" /\ ReExpand(parent)) =>
         \A c \in Range(StructuralTargets(canvasEdges, parent)) :
           (FarEnough(c, parent) /\ ~canvasNodes[c].pinned) => SamePlace(c)]_vars

\* C14 for y alone: such an expand changes the y of no child that is far
\* enough.
C14_ReExpandKeepsFarY ==
  [][\A parent \in DOMAIN canvasNodes :
       ReExpand(parent) =>
         \A c \in Range(StructuralTargets(canvasEdges, parent)) :
           FarEnough(c, parent) => canvasNodes'[c].y = canvasNodes[c].y]_vars

\* the structural children of parent that the expand of this step reveals,
\* in edge order
NewlyRevealed(parent) ==
  FilterSeq(StructuralTargets(canvasEdges, parent),
            {c \in DOMAIN canvasNodes : canvasNodes[c].hidden})

\* the step is an expand of parent that takes the ring branch
RingExpand(parent) ==
  /\ layoutMode = "radial" /\ expandMode = "structure"
  /\ Handled("expand")
  /\ canvasEvents'.last.node = parent

\* after the step the child sits on ring floor(i / 12), at slot i mod 12 of
\* the evenly spaced slots of that ring, i counting the revealed children from 0
OnItsRing(parent, revealed, i) ==
  LET ring == i \div 12
      inRing == IF Len(revealed) - 12 * ring < 12 THEN Len(revealed) - 12 * ring ELSE 12
      radius == Max2(140, 14 * canvasNodes[parent].size) + 140 * ring
                  + 6 * canvasNodes[revealed[i + 1]].size
      spot == Around(canvasNodes[parent], Px(radius), ((i % 12) * FullTurn) \div inRing)
  IN /\ canvasNodes'[revealed[i + 1]].x = spot.x
     /\ canvasNodes'[revealed[i + 1]].y = spot.y

SettlesNow(i) ==
  /\ i \in DOMAIN applyCalls'
  /\ applyCalls'[i].promise # "pending"
  /\ i \in DOMAIN applyCalls => applyCalls[i].promise = "pending"

\* the call ran the fallback after the solver had raised, and the fallback
\* failed too: the state of the caller is as before and the failure is logged
FailedQuietly(i) ==
  /\ i \in DOMAIN applyCalls /\ applyCalls[i].promise = "pending"
  /\ nodesState' = nodesState /\ edgesState' = edgesState
  /\ consoleLog' = Append(consoleLog, "ELK layout failed:")

\* a call is pending only after the solver raised, awaiting the fallback
AwaitsFallbackOnly ==
  \A i \in DOMAIN applyCalls' :
    (i \in DOMAIN applyCalls /\ applyCalls[i].promise = "pending")
      \/ applyCalls'[i].promise = "pending"
      \/ applyCalls'[i].via \in {"elk", "failed"}
    => \E k \in DOMAIN consoleLog' :
         consoleLog'[k] = "Radial layout failed, fallback to ELK:"

\* C16: applyLayout never rejects; when the solver raises the fallback runs;
\* when the fallback fails too the node and edge state is unchanged and the
\* failure only logged; and whenever a call settles isLayouting is false.
C16_SettlesNotLayouting ==
  [][/\ AwaitsFallbackOnly
     /\ \A i \in 1..MaxApplyCalls :
          SettlesNow(i) =>
            /\ applyCalls'[i].promise = "fulfilled"
            /\ applyCalls'[i].via = "failed" => FailedQuietly(i)
            /\ isLayouting' = FALSE]_vars

\* C16 amended: as C16, but isLayouting is false when a call with a non-empty
\* node list settles; a call with an empty list clears the nodes and leaves
\* isLayouting as it is.
C16_SettlesUnlessEmpty ==
  [][/\ AwaitsFallbackOnly
     /\ \A i \in 1..MaxApplyCalls :
          SettlesNow(i) =>
            /\ applyCalls'[i].promise = "fulfilled"
            /\ applyCalls'[i].via = "failed" => FailedQuietly(i)
            /\ IF applyCalls'[i].empty
                 THEN isLayouting' = isLayouting /\ nodesState' = <<>>
                 ELSE isLayouting' = FALSE]_vars

\* C16 witness: the solver raised, the fallback failed, the call is fulfilled
\* with both failures logged, no node or edge set and isLayouting false.
C16_Witness ==
  /\ Len(applyCalls) = 1
  /\ applyCalls[1] = [empty |-> FALSE, promise |-> "fulfilled", via |-> "failed"]
  /\ consoleLog = <<"Radial layout failed, fallback to ELK:", "ELK layout failed:">>
  /\ nodesState = <<>> /\ edgesState = <<>>
  /\ isLayouting = FALSE

\* the root set the selection rule names for the nodes of one component
RuleRoots(componentNodes, nodes, preferred) ==
  LET inComponent == Range(componentNodes)
      top == MaxOf({nodes[id].degree : id \in inComponent})
      atThreshold == {id \in inComponent : nodes[id].degree >= Max2(3, (7 * top) \div 10)}
  IN IF preferred \cap inComponent # {} THEN {preferred \cap inComponent}
     ELSE IF atThreshold # {} THEN {atThreshold}
     ELSE {{id} : id \in {n \in inComponent : nodes[n].degree = top}}

\* the solver returned, and in every component holding a node the roots are
\* those of the rule
RootsByRule ==
  /\ layoutResult.status = "ok"
  /\ \A i \in DOMAIN layoutResult.componentResults :
       LET result == layoutResult.componentResults[i]
       IN result.componentNodes # <<>> =>
            /\ result.pseudoRoots # <<>>
            /\ Range(result.pseudoRoots)
                 \in RuleRoots(result.componentNodes, layoutResult.nodes,
                               Range(layoutOptions.preferredRootIds))

\* some component holds a node but none of the preferred roots supplied
PreferredMissSomeComponent ==
  /\ layoutOptions.preferredRootIds # <<>>
  /\ \E i \in DOMAIN layoutResult.components :
       /\ Range(layoutResult.components[i]) \cap DOMAIN layoutResult.nodes # {}
       /\ Range(layoutResult.components[i]) \cap Range(layoutOptions.preferredRootIds) = {}

C17_RootsUnlessPreferredMiss ==
  layoutResult.status # "idle" /\ ~PreferredMissSomeComponent => RootsByRule

\* the solver raises exactly when preferred roots miss a component
C17_RaisesOnPreferredMiss ==
  layoutResult.status # "idle" =>
    (layoutResult.status = "throw" <=> PreferredMissSomeComponent)

\* the results of the components for which several pseudo-roots were selected
MultiRootResults ==
  IF layoutResult.status # "ok" THEN {}
  ELSE {layoutResult.componentResults[i] : i \in
          {k \in DOMAIN layoutResult.componentResults :
             /\ layoutResult.componentResults[k].componentNodes # <<>>
             /\ Len(layoutResult.componentResults[k].pseudoRoots) > 1}}

\* the depth that places the node: one more than that of its spanning-tree parent
OneBelowParent(result, id) ==
  /\ result.parentById[id] # Absent
  /\ result.clusterDepthById[id]
       = result.clusterDepthById[result.parentById[id][1]] + 1

C18_FirstRootAtDepthZero ==
  \A result \in MultiRootResults :
    \A id \in Range(result.component) :
      IF id = result.pseudoRoots[1]
        THEN result.clusterDepthById[id] = 0 /\ result.parentById[id] = Absent
        ELSE OneBelowParent(result, id)

\* the results of the components that hold a locked node
LockedResults ==
  IF layoutResult.status # "ok" THEN {}
  ELSE {[nodes |-> layoutResult.nodes] @@ layoutResult.componentResults[i] : i \in
          {k \in DOMAIN layoutResult.componentResults :
             /\ layoutResult.componentResults[k].componentNodes # <<>>
             /\ layoutResult.componentResults[k].lockedNodes # <<>>}}

LockedAt(c, locked) ==
  IF c.nodes[locked].node.position # Absent THEN c.nodes[locked].node.position[1]
  ELSE [x |-> 0, y |-> 0]

RECURSIVE PushedUntilClear(_, _, _, _, _)
\* the ring of the node pushed by half the margin until the node, at its
\* recomputed position, is clear of the locked node, at most 12 times
PushedUntilClear(c, offsets, locked, id, pushes) ==
  IF /\ pushes < 12
     /\ boxOverlap(LockedAt(c, locked), c.nodes[locked],
                   getComputedPosition(c, offsets, id), c.nodes[id], 12)
    THEN PushedUntilClear(c, addDepthOffset(offsets, DepthOf(c, id), 12), locked, id,
                          pushes + 1)
    ELSE offsets

RECURSIVE ClearedOfLocked(_, _, _, _)
\* that, for every locked node and every unlocked node in turn
ClearedOfLocked(c, offsets, lockedNodes, movableNodes) ==
  IF lockedNodes = <<>> THEN offsets
  ELSE IF movableNodes = <<>>
    THEN ClearedOfLocked(c, offsets, Tail(lockedNodes), c.movableNodes)
  ELSE ClearedOfLocked(c, PushedUntilClear(c, offsets, Head(lockedNodes),
                                           Head(movableNodes), 0),
                       lockedNodes, Tail(movableNodes))

\* C19: in the locked-node pass an unlocked node that overlaps a locked
\* node's box has its depth ring pushed outward only until its recomputed
\* position no longer overlaps: pushing stops at the first push after which
\* the overlap is gone, and after 12 pushes otherwise; an unlocked node that
\* overlaps no locked node adds no offset.
C19_PushedOnlyUntilClear ==
  \A c \in LockedResults :
    c.depthOffsets = ClearedOfLocked(c, c.afterRadial, c.lockedNodes, c.movableNodes)

\* some unlocked node overlaps a locked node before the locked-node pass
OverlapsLocked(c) ==
  \E locked \in Range(c.lockedNodes), id \in Range(c.movableNodes) :
    boxOverlap(LockedAt(c, locked), c.nodes[locked],
               getComputedPosition(c, c.afterRadial, id), c.nodes[id], 12)

\* C19's last part: where no unlocked node overlaps a locked node the pass
\* adds no offset
C19_NoOverlapNoOffset ==
  \A c \in LockedResults : ~OverlapsLocked(c) => c.depthOffsets = c.afterRadial

\* every push of the pass comes in a run of 12: the offset a ring gains is a
\* multiple of 12 pushes of half the margin
C19_TwelvePushesAtOnce ==
  \A c \in LockedResults :
    \A d \in DOMAIN c.depthOffsets : (c.depthOffsets[d] - c.afterRadial[d]) % 144 = 0

\* the step is an expand of parent that takes the layered branch
LayeredExpand(parent) ==
  /\ layoutMode = "layered"
  /\ Handled("expand")
  /\ canvasEvents'.last.node = parent
  /\ ~(expandMode = "circle" /\ NewlyRevealed(parent) # <<>>)

\* the children of parent, in ascending order of the y they have before the step
ByPreviousY(parent) == SortedByY(canvasNodes, StructuralTargets(canvasEdges, parent))

\* the symmetric slot of the child with this index among n children
SymmetricY(parent, child, index, n) ==
  canvasNodes[parent].y
    + ((2 * index - (n - 1)) * Px(150 + 4 * canvasNodes[child].size)) \div 2

\* C20: in layered expand a structural child that lies closer than
\* minSeparation = max(120, 12 x parentSize) to the parent when expand is
\* invoked has its y reassigned to the symmetric slot
\* parentY + (index - mid) x (150 + 4 x childSize), index in ascending order
\* of the previous y; a child at least minSeparation away keeps its y.
C20_NearChildrenTakeSlots ==
  [][\A parent \in DOMAIN canvasNodes :
       LayeredExpand(parent) =>
         \A i \in 1..Len(ByPreviousY(parent)) :
           canvasNodes'[ByPreviousY(parent)[i]].y
             = IF FarEnough(ByPreviousY(parent)[i], parent)
                 THEN canvasNodes[ByPreviousY(parent)[i]].y
                 ELSE SymmetricY(parent, ByPreviousY(parent)[i], i - 1,
                                 Len(ByPreviousY(parent)))]_vars

\* what layered expand does to y: nothing, the child being moved to the
\* right of the parent before its distance is tested
C20_LayeredExpandKeepsY ==
  [][\A parent \in DOMAIN canvasNodes :
       LayeredExpand(parent) =>
         \A c \in Range(StructuralTargets(canvasEdges, parent)) :
           canvasNodes'[c].y = canvasNodes[c].y]_vars

\* ---- C21 ----------------------------------------------------------------
\* the sources of the structural edges that end at a node
StructuralParents(c) ==
  {canvasEdges[i].source :
     i \in {j \in DOMAIN canvasEdges :
              canvasEdges[j].target = c /\ canvasEdges[j].edgeType = "structural"}}

\* no node has two structural parents (the enumerated graphs with this
\* property are trees, so each child is placed once, after its parent)
TreeShaped == \A c \in DOMAIN canvasNodes : Cardinality(StructuralParents(c)) <= 1

\* the visible unpinned structural children of a parent after the step
MovableUnder(p) ==
  FilterSeq(StructuralTargets(canvasEdges, p),
            {c \in DOMAIN canvasNodes : ~canvasNodes'[c].hidden /\ ~canvasNodes'[c].pinned})

\* after the step these children are where the placement around the parent's
\* new position puts them
PlacedUnder(p) ==
  \A c \in Range(MovableUnder(p)) :
    /\ canvasNodes'[c].x
         = RelayoutChildren(canvasNodes', MovableUnder(p), canvasNodes'[p],
                            expandMode', layoutMode)[c].x
    /\ canvasNodes'[c].y
         = RelayoutChildren(canvasNodes', MovableUnder(p), canvasNodes'[p],
                            expandMode', layoutMode)[c].y

RECURSIVE UnderAdvisors(_)
\* the visible nodes a walk over visible structural children reaches from
\* this set of nodes
UnderAdvisors(reached) ==
  LET more == {c \in DOMAIN canvasNodes :
                 /\ ~canvasNodes'[c].hidden
                 /\ StructuralParents(c) \cap reached # {}}
  IN IF more \subseteq reached THEN reached ELSE UnderAdvisors(reached \cup more)

VisibleAdvisors == {a \in DOMAIN canvasNodes : canvasNodes'[a].advisor /\ ~canvasNodes'[a].hidden}

\* C21: relayoutVisibleStructuralNodes starts from every visible node without
\* a visible structural parent, so after a relayout every visible unpinned
\* node that has a visible structural parent sits where the placement around
\* that parent puts it (stated for graphs in which no node has two
\* structural parents).
C21_EveryVisibleChildPlaced ==
  [][Handled("relayout") /\ TreeShaped =>
       \A p \in DOMAIN canvasNodes : ~canvasNodes'[p].hidden => PlacedUnder(p)]_vars

\* what the relayout does place: the children of the parents that the walk
\* reaches from the visible advisors, when an advisor is visible
C21_ChildrenUnderAdvisorsPlaced ==
  [][Handled("relayout") /\ TreeShaped /\ VisibleAdvisors # {} =>
       \A p \in UnderAdvisors(VisibleAdvisors) : PlacedUnder(p)]_vars

\* ---- C22 ----------------------------------------------------------------
GroupsReturned == groupResult.status = "ok"

\* the advisors among the members of a returned group
AdvisorsOfGroup(grp) == Range(grp.nodeIds) \cap groupGraph.advisor

\* C22: in every group buildAdvisorGroups returns, advisorId is the
\* earliest-enumerated advisor among the group's advisors, and the groups come
\* in ascending order of that advisor's enumeration index, so the first group
\* holds the first-enumerated advisor.
C22_EarliestAdvisorOrdersGroups ==
  GroupsReturned =>
    /\ \A i \in DOMAIN groupResult.groups :
         /\ groupResult.groups[i].advisorId \in AdvisorsOfGroup(groupResult.groups[i])
         /\ \A a \in AdvisorsOfGroup(groupResult.groups[i]) :
              groupResult.groups[i].advisorId <= a
         /\ groupResult.groups[i].advisorOrderIndex
              = Cardinality({a \in groupGraph.advisor : a < groupResult.groups[i].advisorId})
    /\ \A i \in DOMAIN groupResult.groups, j \in DOMAIN groupResult.groups :
         i < j => groupResult.groups[i].advisorOrderIndex
                    < groupResult.groups[j].advisorOrderIndex
    /\ groupGraph.advisor # {} =>
         /\ groupResult.groups # <<>>
         /\ \A a \in groupGraph.advisor :
              groupResult.groups[1].advisorId <= a

\* two groups are returned, and in one of them an advisor that is not the
\* earliest of the group is the root of the union-find tree
C22_Witness ==
  /\ GroupsReturned
  /\ Len(groupResult.groups) >= 2
  /\ \E i \in DOMAIN groupResult.groups :
       /\ Cardinality(AdvisorsOfGroup(groupResult.groups[i])) >= 2
       /\ groupResult.groups[i].groupId # groupResult.groups[i].advisorId

\* ---- C23 ----------------------------------------------------------------
\* a node resolves to an advisor when a chain of edges joins it to one
Resolves(id) == ConnectedTo(groupGraph, {id}) \cap groupGraph.advisor # {}

\* the places (group, position) at which a node is listed
ListedAt(id) ==
  {pl \in (DOMAIN groupResult.groups) \X (1..groupGraph.order) :
     /\ pl[2] \in DOMAIN groupResult.groups[pl[1]].nodeIds
     /\ groupResult.groups[pl[1]].nodeIds[pl[2]] = id}

\* C23: the node sets of the groups buildAdvisorGroups returns are pairwise
\* disjoint, every node that resolves to an advisor is in exactly one group,
\* and the two endpoints of an edge of any type that both resolve to an
\* advisor are in the same group.
C23_GroupsPartitionResolved ==
  GroupsReturned =>
    /\ \A i \in DOMAIN groupResult.groups, j \in DOMAIN groupResult.groups :
         i # j => Range(groupResult.groups[i].nodeIds)
                    \cap Range(groupResult.groups[j].nodeIds) = {}
    /\ \A id \in 1..groupGraph.order :
         Resolves(id) => Cardinality(ListedAt(id)) = 1
    /\ \A e \in DOMAIN groupGraph.edges :
         (Resolves(groupGraph.edges[e].source) /\ Resolves(groupGraph.edges[e].target)) =>
           \E i \in DOMAIN groupResult.groups :
             {groupGraph.edges[e].source, groupGraph.edges[e].target}
               \subseteq Range(groupResult.groups[i].nodeIds)

\* two edges that end at the same advisor join three advisors into one group
C23_Witness ==
  /\ GroupsReturned
  /\ Len(groupGraph.edges) = 2
  /\ groupGraph.edges[1].target = groupGraph.edges[2].target
  /\ \E i \in DOMAIN groupResult.groups :
       Cardinality(AdvisorsOfGroup(groupResult.groups[i])) = 3

\* ---- C24 ----------------------------------------------------------------
\* the effect body got past its guard (it returned a cleanup), or the cleanup ran
RunStarted == cleanupPending' /\ ~cleanupPending
CleanupRan == cleanupPending /\ ~cleanupPending'

\* the runs that settle in the step
SettledRuns == inFlight \ inFlight'

\* C24: the run identifier never decreases and strictly increases on every
\* run start and every effect cleanup, so no two runs share an identifier;
\* layoutRunning is true only if the run holding the latest identifier is
\* still in flight, and a superseded run's completion leaves the flag alone.
C24_RunIdsOrderTheRuns ==
  /\ [](layoutRunning => layoutRunId \in inFlight)
  /\ [](\A r \in inFlight : r <= layoutRunId)
  /\ [][/\ layoutRunId' >= layoutRunId
        /\ (RunStarted \/ CleanupRan) => layoutRunId' > layoutRunId
        /\ \A r \in inFlight' \ inFlight : r = layoutRunId' /\ r > layoutRunId
        /\ \A r \in SettledRuns :
             r # layoutRunId => layoutRunning' = layoutRunning]_vars

\* a superseded run has settled, and the run with the latest identifier is in
\* flight with the flag set
C24_Witness ==
  /\ layoutRunning
  /\ layoutRunId \in inFlight
  /\ \E r \in superseded : r < layoutRunId /\ r \notin inFlight

\* ---- C25 ----------------------------------------------------------------
\* the effect has started the run with this identifier and has not been
\* cleaned up since
Activated(r) == cleanupPending /\ layoutRunId = r

StopCalledFor(r) == \E s \in stopCalls : s.run = r

\* C25: every activation of ElkLayout on a non-empty graph whose run is not
\* superseded is eventually followed by its call of onLayoutStop (which makes
\* isInitialLayoutReady true and the canvas visible and interactive).
C25_ActivatedRunStops ==
  \A r \in 1..MaxRunId : Activated(r) ~> (layoutRunId # r \/ StopCalledFor(r))

\* what does hold: a run in flight is eventually settled or superseded
C25_ActivatedRunSettles ==
  \A r \in 1..MaxRunId : Activated(r) ~> (layoutRunId # r \/ r \notin inFlight)

\* ---- C26 ----------------------------------------------------------------
\* the targets of the outgoing structural edges of a node
TargetsOf(n) ==
  {canvasEdges[i].target :
     i \in {j \in DOMAIN canvasEdges :
              canvasEdges[j].source = n /\ canvasEdges[j].edgeType = "structural"}}

\* the step sets hidden to this value on the targets of the handled node, and
\* changes no other hidden flag, no node set and no edge
SetsHiddenOnTargets(value) ==
  /\ DOMAIN canvasNodes' = DOMAIN canvasNodes
  /\ canvasEdges' = canvasEdges
  /\ \A id \in DOMAIN canvasNodes :
       canvasNodes'[id].hidden
         = IF id \in TargetsOf(canvasEvents'.last.node) THEN value
           ELSE canvasNodes[id].hidden

VisibleParents(c) == {p \in StructuralParents(c) : ~canvasNodes[p].hidden}

\* C27: in every state reached from the built graph by expand and hide
\* actions on visible nodes, every visible node that is not an advisor has at
\* least one visible structural parent.
C27_VisibleUnderVisibleParent ==
  \A c \in DOMAIN canvasNodes :
    (~canvasNodes[c].hidden /\ ~canvasNodes[c].advisor) => VisibleParents(c) # {}

\* what the handlers keep: a node that is not an advisor becomes visible only
\* in a step in which one of its structural parents is visible before and
\* after, so every visible such node has a structural parent; a hide leaves
\* every direct structural child of its node hidden, and nothing deeper
C27_RevealedUnderVisibleParent ==
  /\ [](\A c \in DOMAIN canvasNodes :
          (~canvasNodes[c].hidden /\ ~canvasNodes[c].advisor) => StructuralParents(c) # {})
  /\ [][\A c \in DOMAIN canvasNodes :
          (canvasNodes[c].hidden /\ ~canvasNodes'[c].hidden) =>
            \E p \in VisibleParents(c) : ~canvasNodes'[p].hidden]_vars

\* a visible node that is not an advisor, all of whose structural parents
\* are hidden
C27_Witness ==
  \E c \in DOMAIN canvasNodes :
    /\ ~canvasNodes[c].hidden /\ ~canvasNodes[c].advisor
    /\ StructuralParents(c) # {}
    /\ VisibleParents(c) = {}

\* ---- C28 ----------------------------------------------------------------
HandlesMapped == handleOutput.status = "ok"

\* where the map, or the origin for a node it lacks, puts an end of the edge
EndPosition(id) ==
  IF id \in DOMAIN handleInput.positions THEN handleInput.positions[id]
  ELSE [x |-> 0, y |-> 0]

Displacement(e) ==
  [dx |-> EndPosition(e.target).x - EndPosition(e.source).x,
   dy |-> EndPosition(e.target).y - EndPosition(e.source).y]

\* the side by the sign of the dominant axis, the horizontal one on a tie
SideOf(d) ==
  IF d.dx * d.dx >= d.dy * d.dy
    THEN (IF d.dx >= 0 THEN "right" ELSE "left")
    ELSE (IF d.dy >= 0 THEN "bottom" ELSE "top")

Opposite(side) ==
  CASE side = "right" -> "left"
    [] side = "left" -> "right"
    [] side = "bottom" -> "top"
    [] side = "top" -> "bottom"

\* the same edges in the same order, and the source handle by the rule
SameEdgesSourceSide ==
  /\ Len(handleOutput.edges) = Len(handleInput.edges)
  /\ \A i \in DOMAIN handleInput.edges :
       /\ handleOutput.edges[i].id = handleInput.edges[i].id
       /\ handleOutput.edges[i].source = handleInput.edges[i].source
       /\ handleOutput.edges[i].target = handleInput.edges[i].target
       /\ handleOutput.edges[i].sourceHandle = SideOf(Displacement(handleInput.edges[i]))

\* C28: mapEdgesWithHandles returns the same edges in the same order with the
\* same ids, sources and targets; the source handle is right or left by the
\* sign of dx when |dx| >= |dy| and else bottom or top by the sign of dy; the
\* target handle is always the side opposite to the source handle.
C28_TargetHandleOpposite ==
  HandlesMapped =>
    /\ SameEdgesSourceSide
    /\ \A i \in DOMAIN handleOutput.edges :
         handleOutput.edges[i].targetHandle = Opposite(handleOutput.edges[i].sourceHandle)

Coincident(e) == Displacement(e).dx = 0 /\ Displacement(e).dy = 0

\* what holds: the target handle is the opposite side unless the two ends
\* are at the same place, and then both handles are right
C28_OppositeUnlessCoincident ==
  HandlesMapped =>
    /\ SameEdgesSourceSide
    /\ \A i \in DOMAIN handleOutput.edges :
         handleOutput.edges[i].targetHandle
           = IF Coincident(handleInput.edges[i]) THEN "right"
             ELSE Opposite(handleOutput.edges[i].sourceHandle)

\* the list holds an edge whose ends are at the same place though they are
\* two nodes, and an edge on the diagonal that points left
C28_Witness ==
  /\ HandlesMapped
  /\ \E i \in DOMAIN handleInput.edges :
       /\ Coincident(handleInput.edges[i])
       /\ handleInput.edges[i].source # handleInput.edges[i].target
  /\ \E i \in DOMAIN handleInput.edges :
       /\ Displacement(handleInput.edges[i]).dx < 0
       /\ Abs(Displacement(handleInput.edges[i]).dx) = Abs(Displacement(handleInput.edges[i]).dy)
       /\ handleOutput.edges[i].sourceHandle = "left"

\* ---- C29 ----------------------------------------------------------------
\* the responses handed to worker.onmessage in the step
DeliveredNow == appInbox \ appInbox'

\* C29: App applies a worker response only if its id is the id of the most
\* recently issued request: the delivery of a response to a superseded
\* request changes neither the graph data, nor the load error, nor the
\* loading flag, in every interleaving of requests and responses.
C29_SupersededResponseIgnored ==
  [][/\ \A record \in DeliveredNow :
          record.id # requestIdRef =>
            /\ initialData' = initialData
            /\ loadError' = loadError
            /\ isLoading' = isLoading
     /\ initialData' # initialData =>
          \E record \in DeliveredNow :
            record.id = requestIdRef /\ record.ok /\ initialData' = record.data
     /\ (isLoading /\ ~isLoading') =>
          \E record \in DeliveredNow : record.id = requestIdRef]_vars

\* the response to the first request of the mount was delivered after the
\* second request was issued, and App is still loading
C29_Witness ==
  /\ [id |-> 1, stale |-> TRUE] \in delivered
  /\ isLoading
  /\ initialData = [nodes |-> <<>>, edges |-> <<>>]
  /\ \E record \in appInbox : record.id = requestIdRef

\* ---- C30 ----------------------------------------------------------------
\* the first load has ended and App is loading again: a source was selected
AfterSelection == isLoading /\ [id |-> 2, stale |-> FALSE] \in delivered

\* C30: after any data-source selection, the selection of the active source
\* included, loading eventually ends provided the worker answers every
\* request: isLoading returns to false and the canvas is rendered again.
C30_LoadingEnds == AfterSelection ~> ~isLoading

\* the request with the latest id is with the worker or on its way back
LatestRequestOpen ==
  \E message \in workerInbox \cup appInbox : message.id = requestIdRef

\* what holds: loading ends when the selection has posted a request, and
\* the first load after the mount ends
C30_LoadingEndsWhenRequested == (isLoading /\ LatestRequestOpen) ~> ~isLoading

====
